---------------------------- MODULE Spec2Model ----------------------------
(***************************************************************************)
(* Subtitle synchronisation and segmentation engine.                       *)
(*                                                                         *)
(*   sentence_subtitle_optimizer.py  merge_subtitles_by_sentence,          *)
(*                                   split_long_sentence_by_duration,      *)
(*                                   translate_sentences, correct_terms,   *)
(*                                   fix_overlaps_gentle                   *)
(*   audio_analyzer.py               AudioAnalyzer                         *)
(*   subtitle_generator.py           fix_overlaps, generate_styled_ass     *)
(*                                                                         *)
(* Texts are sequences of characters, each character a string; a          *)
(* character outside ASCII is written by its code point ("U+3002").        *)
(* Times are integers in milliseconds, energies are integers in dB.        *)
(***************************************************************************)
EXTENDS Integers, Sequences, FiniteSets, TLC

VARIABLES
    pc,              \* "ready" before the call under study, "done" after it
    entries,         \* merge_subtitles_by_sentence: the input fragments
    merged,          \* merge_subtitles_by_sentence: the returned spans
    start_ms,        \* split_long_sentence_by_duration: argument start_ms
    end_ms,          \* split_long_sentence_by_duration: argument end_ms
    text,            \* split_long_sentence_by_duration: argument text
    segments,        \* split_long_sentence_by_duration: the returned segments
    rms_values,      \* _detect_speech_activity: argument rms_values
    threshold_ratio, \* _detect_speech_activity: argument threshold_ratio, in tenths
    speech_idx,      \* _detect_speech_activity: the returned (start_idx, end_idx)
    audio_features,  \* AudioAnalyzer.audio_features: None or the feature dict
    video_duration_ms, \* AudioAnalyzer.video_duration_ms
    cache_file,      \* the cache artifact at AudioAnalyzer.cache_file
    media_stderr,    \* what the decoder prints for the media file when it runs
    decoder_runs,    \* how often the last call ran the external decoder
    cache_found,     \* the cache artifact as the last call found it
    decoder_outcome, \* how the decoder run of the last call ended, "none" without a run
    decoder_ran,     \* the decoder has been run for the media path
    load_failed,     \* the analyzer has no features after an extraction that failed
    call,            \* the AudioAnalyzer method called last, with its arguments
    ret,             \* the value that call returned
    min_gap_ms,      \* fix_overlaps, fix_overlaps_gentle: argument min_gap_ms
    ass_entries,     \* fix_overlaps: argument entries
    sorted_entries,  \* fix_overlaps: the returned entries
    iterations,      \* fix_overlaps: the entries as each pass left them
    subtitles,       \* fix_overlaps_gentle: argument subtitles, as handed in
    fixed_subtitles, \* fix_overlaps_gentle: the subtitles after the call
    style_name,      \* generate_styled_ass: argument style_name
    ass_lines,       \* generate_styled_ass: the Dialogue lines written
    sentences,       \* translate_sentences: argument sentences
    failing,         \* translate_sentences: the translator calls that raise
    results,         \* translate_sentences: the returned subtitles
    output_lines,    \* _parse_full_rms_output: argument ffmpeg_output, as lines
    parsed_frames,   \* _parse_full_rms_output: the returned frames
    request_at,      \* concurrent requests: where each load_or_extract_audio_features call stands
    observed,        \* concurrent requests: the cache artifact as each call read it
    offset,          \* concurrent requests: the chunks each call has written to the artifact
    returned,        \* concurrent requests: what each call returned
    artifact         \* concurrent requests: the file at cache_file they share

mergeVars == <<entries, merged>>
splitVars == <<start_ms, end_ms, text, segments>>
detectVars == <<rms_values, threshold_ratio, speech_idx>>
analyzerVars ==
    <<audio_features, video_duration_ms, cache_file, media_stderr, decoder_runs,
      cache_found, decoder_outcome, decoder_ran, load_failed, call, ret>>
resolverVars == <<min_gap_ms, ass_entries, sorted_entries, iterations, subtitles, fixed_subtitles>>
assVars == <<style_name, ass_lines>>
translateVars == <<sentences, failing, results>>
parseVars == <<output_lines, parsed_frames>>
concurrentVars == <<request_at, observed, offset, returned, artifact>>
vars == <<pc, mergeVars, splitVars, detectVars, analyzerVars,
         resolverVars,
         assVars,
         translateVars,
         parseVars,
         concurrentVars>>

\* the variables of the other components
notMergeVars == <<splitVars, detectVars, analyzerVars, resolverVars, assVars, translateVars, parseVars, concurrentVars>>
notSplitVars == <<mergeVars, detectVars, analyzerVars, resolverVars, assVars, translateVars, parseVars, concurrentVars>>
notDetectVars == <<mergeVars, splitVars, analyzerVars, resolverVars, assVars, translateVars, parseVars, concurrentVars>>
notAnalyzerVars == <<mergeVars, splitVars, detectVars, resolverVars, assVars, translateVars, parseVars, concurrentVars>>
notResolverVars == <<mergeVars, splitVars, detectVars, analyzerVars, assVars, translateVars, parseVars, concurrentVars>>
notAssVars == <<mergeVars, splitVars, detectVars, analyzerVars, resolverVars, translateVars, parseVars, concurrentVars>>
notTranslateVars == <<mergeVars, splitVars, detectVars, analyzerVars, resolverVars, assVars, parseVars, concurrentVars>>
notParseVars == <<mergeVars, splitVars, detectVars, analyzerVars, resolverVars, assVars, translateVars, concurrentVars>>
notConcurrentVars == <<mergeVars, splitVars, detectVars, analyzerVars, resolverVars, assVars, translateVars, parseVars>>

\* Python's None
None == [none |-> TRUE]

\* no call made yet, or the last call has been consumed by the caller
NoCall == [op |-> "none", args |-> <<>>]

\* a component that takes no part in the specification at hand
MergeIdle ==
    /\ entries = <<>>
    /\ merged = <<>>

SplitIdle ==
    /\ start_ms = 0
    /\ end_ms = 0
    /\ text = <<>>
    /\ segments = <<>>

DetectIdle ==
    /\ rms_values = <<>>
    /\ threshold_ratio = 0
    /\ speech_idx = <<0, 0>>

AnalyzerIdle ==
    /\ audio_features = None
    /\ video_duration_ms = 0
    /\ cache_file = [state |-> "absent"]
    /\ media_stderr = <<>>
    /\ decoder_runs = 0
    /\ cache_found = [state |-> "absent"]
    /\ decoder_outcome = "none"
    /\ decoder_ran = FALSE
    /\ load_failed = FALSE
    /\ call = NoCall
    /\ ret = None

ResolverIdle ==
    /\ min_gap_ms = 0
    /\ ass_entries = <<>>
    /\ sorted_entries = <<>>
    /\ iterations = <<>>
    /\ subtitles = <<>>
    /\ fixed_subtitles = <<>>

AssIdle ==
    /\ style_name = "obama"
    /\ ass_lines = <<>>

TranslateIdle ==
    /\ sentences = <<>>
    /\ failing = {}
    /\ results = <<>>

ParseIdle ==
    /\ output_lines = <<>>
    /\ parsed_frames = <<>>

ConcurrentIdle ==
    /\ request_at = <<>>
    /\ observed = <<>>
    /\ offset = <<>>
    /\ returned = <<>>
    /\ artifact = [exists |-> FALSE, chunks |-> <<>>]

-----------------------------------------------------------------------------
(* Bounds of the model *)

\* longest fragment list handed to merge_subtitles_by_sentence
MaxFragments == 7

\* longest text handed to split_long_sentence_by_duration, and the length up
\* to which its characters are drawn from the whole alphabet
MaxTextLen == 7
MaxFreeLen == 4

\* longest energy list handed to _detect_speech_activity, and the length up
\* to which its energies are drawn from all levels (quiet frames follow)
MaxEnergies == 12
MaxFreeEnergies == 4

\* most energy readings in the decoder output of a media file
MaxFrames == 3

\* longest entry list handed to fix_overlaps
MaxEntries == 3

\* longest subtitle list handed to fix_overlaps_gentle
MaxSubtitles == 3

\* most blocks of the subtitle file handed to generate_styled_ass
MaxDialogues == 2

\* longest sentence list handed to translate_sentences
MaxSentences == 2

\* most lines of a decoder output handed to _parse_full_rms_output
MaxLines == 4

\* most load_or_extract_audio_features calls that run at the same time
MaxRequests == 3

-----------------------------------------------------------------------------
(* Strings *)

Quote == "\""

Whitespace == {" "}

\* str.strip(): leading and trailing whitespace removed
RECURSIVE LStrip(_)
LStrip(s) ==
    IF s # <<>> /\ Head(s) \in Whitespace THEN LStrip(Tail(s)) ELSE s

RECURSIVE RStrip(_)
RStrip(s) ==
    IF s # <<>> /\ s[Len(s)] \in Whitespace
    THEN RStrip(SubSeq(s, 1, Len(s) - 1))
    ELSE s

Strip(s) == LStrip(RStrip(s))

\* str.endswith(marker)
EndsWith(s, marker) ==
    /\ Len(marker) <= Len(s)
    /\ SubSeq(s, Len(s) - Len(marker) + 1, Len(s)) = marker

\* ' '.join(texts)
RECURSIVE Join(_)
Join(texts) ==
    IF texts = <<>> THEN <<>>
    ELSE IF Len(texts) = 1 THEN texts[1]
    ELSE texts[1] \o <<" ">> \o Join(Tail(texts))

\* sum(len(p) for p in parts)
RECURSIVE SumLen(_)
SumLen(parts) ==
    IF parts = <<>> THEN 0 ELSE Len(parts[1]) + SumLen(Tail(parts))

-----------------------------------------------------------------------------
(* sentence_subtitle_optimizer.py: merge_subtitles_by_sentence *)

\* SubtitleEntry(index, start_ms, end_ms, text): the text is stored stripped
SubtitleEntry(index, start, end, txt) ==
    [index |-> index, start_ms |-> start, end_ms |-> end, text |-> Strip(txt)]

\* the end markers of is_sentence_end
end_markers ==
    { <<".">>, <<"!">>, <<"?">>, <<"U+3002">>, <<"U+FF01">>, <<"U+FF1F">>,
      <<".", ".", ".">>, <<"U+2026">> }

is_sentence_end(txt) ==
    \E marker \in end_markers : EndsWith(Strip(txt), marker)

\* the cap on the fragments merged into one span
MaxGroup == 5

\* (start_ms, end_ms, merged_text) of a group of entries
GroupSpan(group) ==
    << group[1].start_ms,
       group[Len(group)].end_ms,
       Join([k \in 1..Len(group) |-> group[k].text]) >>

\* one iteration of the loop over entries[1:], on the loop's locals
MergeStepDrop(st, entry) ==
    IF is_sentence_end(st.current_text) \/ EndsWith(st.current_text, <<Quote>>)
    THEN [merged |-> Append(st.merged, GroupSpan(st.current_group)),
          current_group |-> <<entry>>,
          current_text |-> entry.text]
    ELSE LET group == Append(st.current_group, entry)
             txt   == st.current_text \o <<" ">> \o entry.text
         IN  IF Len(group) >= MaxGroup
             THEN [merged |-> st.merged,
                   current_group |-> <<>>,
                   current_text |-> <<>>]
             ELSE [merged |-> st.merged,
                   current_group |-> group,
                   current_text |-> txt]

MergeStepCapOff(st, entry) ==
    IF is_sentence_end(st.current_text) \/ EndsWith(st.current_text, <<Quote>>)
    THEN [merged |-> Append(st.merged, GroupSpan(st.current_group)),
          current_group |-> <<entry>>,
          current_text |-> entry.text]
    ELSE LET group == Append(st.current_group, entry)
             txt   == st.current_text \o <<" ">> \o entry.text
         IN  IF Len(group) > MaxGroup
             THEN [merged |-> Append(st.merged, GroupSpan(group)),
                   current_group |-> <<>>,
                   current_text |-> <<>>]
             ELSE [merged |-> st.merged,
                   current_group |-> group,
                   current_text |-> txt]

MergeStep(st, entry) ==
    IF is_sentence_end(st.current_text) \/ EndsWith(st.current_text, <<Quote>>)
    THEN [merged |-> Append(st.merged, GroupSpan(st.current_group)),
          current_group |-> <<entry>>,
          current_text |-> entry.text]
    ELSE LET group == Append(st.current_group, entry)
             txt   == st.current_text \o <<" ">> \o entry.text
         IN  IF Len(group) >= MaxGroup
             THEN [merged |-> Append(st.merged, GroupSpan(group)),
                   current_group |-> <<>>,
                   current_text |-> <<>>]
             ELSE [merged |-> st.merged,
                   current_group |-> group,
                   current_text |-> txt]

\* for i in range(1, len(entries)); i is 1-based here
RECURSIVE MergeLoop(_, _, _)
MergeLoop(es, i, st) ==
    IF i > Len(es) THEN st ELSE MergeLoop(es, i + 1, MergeStep(st, es[i]))

merge_subtitles_by_sentence(es) ==
    IF es = <<>> THEN <<>>
    ELSE LET st == MergeLoop(es, 2,
                       [merged |-> <<>>,
                        current_group |-> <<es[1]>>,
                        current_text |-> es[1].text])
         IN  IF st.current_group # <<>>
             THEN Append(st.merged, GroupSpan(st.current_group))
             ELSE st.merged

-----------------------------------------------------------------------------
(* sentence_subtitle_optimizer.py: split_long_sentence_by_duration *)

\* spans shorter than this many milliseconds are kept whole (duration_sec < 5)
ShortSpanMs == 5000

\* spans at least this long are also split at secondary marks (duration_sec < 10)
LongSpanMs == 10000

\* the least display time given to a part that is not the last
MinPartMs == 1000

PrimaryMarks == { ".", "!", "?", "U+3002", "U+FF01", "U+FF1F" }

SecondaryMarks == { ",", "U+FF0C", ";", "U+FF1B", ":", "U+FF1A" }

\* duration_sec < 5
IsShortSpanMsAsSec(start, end) == end - start < ShortSpanMs \div 1000

IsShortSpan(start, end) == end - start < ShortSpanMs

\* the tier of punctuation the span is split at
split_chars(start, end) ==
    IF end - start < LongSpanMs
    THEN PrimaryMarks
    ELSE PrimaryMarks \cup SecondaryMarks

\* for char in text: a part is closed right after a split character and
\* stored stripped; acc = [parts, current_part]
RECURSIVE ScanParts(_, _, _, _)
ScanParts(txt, i, marks, acc) ==
    IF i > Len(txt) THEN acc
    ELSE LET current_part == Append(acc.current_part, txt[i])
         IN  IF txt[i] \in marks
             THEN ScanParts(txt, i + 1, marks,
                      [parts |-> Append(acc.parts, Strip(current_part)),
                       current_part |-> <<>>])
             ELSE ScanParts(txt, i + 1, marks,
                      [parts |-> acc.parts, current_part |-> current_part])

\* parts that leave out what follows the last split character
PartsOfClosed(txt, marks) ==
    ScanParts(txt, 1, marks, [parts |-> <<>>, current_part |-> <<>>]).parts

\* the parts of the text: the closed parts, then a non-blank remainder
PartsOf(txt, marks) ==
    LET acc == ScanParts(txt, 1, marks, [parts |-> <<>>, current_part |-> <<>>])
    IN  IF Strip(acc.current_part) # <<>>
        THEN Append(acc.parts, Strip(acc.current_part))
        ELSE acc.parts

\* int((end_ms - start_ms) * (len(part) / total_chars))
PartDuration(start, end, part, total_chars) ==
    ((end - start) * Len(part)) \div total_chars

\* the end of part i, which starts at current_time
PartEnd(start, end, parts, i, current_time) ==
    IF i = Len(parts)
    THEN end
    ELSE LET part_end ==
                 current_time + PartDuration(start, end, parts[i], SumLen(parts))
         IN  IF part_end - current_time < MinPartMs
             THEN current_time + MinPartMs
             ELSE part_end

\* for i, part in enumerate(parts): append the segment, advance current_time
RECURSIVE AllocateGap(_, _, _, _, _, _)
AllocateGap(start, end, parts, i, current_time, segs) ==
    IF i > Len(parts) THEN segs
    ELSE LET part_end == PartEnd(start, end, parts, i, current_time)
         IN  AllocateGap(start, end, parts, i + 1,
                 current_time + PartDuration(start, end, parts[i], SumLen(parts)),
                 Append(segs, <<current_time, part_end, parts[i]>>))

RECURSIVE Allocate(_, _, _, _, _, _)
Allocate(start, end, parts, i, current_time, segs) ==
    IF i > Len(parts) THEN segs
    ELSE LET part_end == PartEnd(start, end, parts, i, current_time)
         IN  Allocate(start, end, parts, i + 1, part_end,
                 Append(segs, <<current_time, part_end, parts[i]>>))

\* segments[-1] = (segments[-1][0], end_ms, segments[-1][2])
FixLast(segs, end) ==
    IF segs = <<>> THEN segs
    ELSE [segs EXCEPT ![Len(segs)] = <<segs[Len(segs)][1], end, segs[Len(segs)][3]>>]

split_long_sentence_by_duration(start, end, txt) ==
    IF IsShortSpan(start, end)
    THEN << <<start, end, txt>> >>
    ELSE LET parts == PartsOf(txt, split_chars(start, end))
         IN  IF Len(parts) <= 1
             THEN << <<start, end, txt>> >>
             ELSE FixLast(Allocate(start, end, parts, 1, start, <<>>), end)

-----------------------------------------------------------------------------
(* Inputs of split_long_sentence_by_duration *)

\* the characters of sentence texts: a letter, a primary mark, a secondary
\* mark, a blank
TextChars == { "a", ".", ",", " " }

\* the characters drawn once a text is longer than MaxFreeLen
TailChars == { "a", "." }

\* the durations of the spans handed to the splitter: around both thresholds
SpanDurations == { 0, 4999, 5000, 9999, 10000 }

-----------------------------------------------------------------------------
(* Specification of the duration splitter: a sentence with its time span    *)
(* is composed, then split_long_sentence_by_duration is called on it.       *)

InitSplit ==
    /\ pc = "ready"
    /\ start_ms = 1000
    /\ end_ms \in { start_ms + d : d \in SpanDurations }
    /\ text = <<>>
    /\ segments = <<>>
    /\ MergeIdle
    /\ DetectIdle
    /\ AnalyzerIdle
    /\ ResolverIdle
    /\ AssIdle
    /\ TranslateIdle
    /\ ParseIdle
    /\ ConcurrentIdle

ComposeText ==
    /\ pc = "ready"
    /\ Len(text) < MaxTextLen
    /\ \E c \in (IF Len(text) < MaxFreeLen THEN TextChars ELSE TailChars) :
          text' = Append(text, c)
    /\ UNCHANGED <<pc, start_ms, end_ms, segments, notSplitVars>>

Split ==
    /\ pc = "ready"
    /\ pc' = "done"
    /\ segments' = split_long_sentence_by_duration(start_ms, end_ms, text)
    /\ UNCHANGED <<start_ms, end_ms, text, notSplitVars>>

NextSplit == ComposeText \/ Split

SpecSplit == InitSplit /\ [][NextSplit]_vars

-----------------------------------------------------------------------------
(* audio_analyzer.py: AudioAnalyzer._detect_speech_activity *)

Min(a, b) == IF a <= b THEN a ELSE b

Max(a, b) == IF a >= b THEN a ELSE b

\* int(x) of the quotient n / d, d > 0: truncation toward zero
IntTrunc(n, d) == IF n >= 0 THEN n \div d ELSE -((-n) \div d)

\* sorted(values): insertion of v into an ascending list
RECURSIVE Insert(_, _)
Insert(v, sorted) ==
    IF sorted = <<>> THEN <<v>>
    ELSE IF v <= Head(sorted) THEN <<v>> \o sorted
    ELSE <<Head(sorted)>> \o Insert(v, Tail(sorted))

RECURSIVE Sorted(_)
Sorted(values) ==
    IF values = <<>> THEN <<>> ELSE Insert(Head(values), Sorted(Tail(values)))

\* the dB added to the noise floor to get the speech threshold
SpeechMarginDb == 10

\* the frames the end index is moved past the start when no width is left
MinSpeechFrames == 10

\* sorted(rms_values)[:max(1, int(len(rms_values) * threshold_ratio))][-1];
\* the ratio is given in tenths
NoiseFloorLowest(rms, tenths) == Sorted(rms)[1]

NoiseFloor(rms, tenths) ==
    LET k      == Max(1, IntTrunc(Len(rms) * tenths, 10))
        lowest == SubSeq(Sorted(rms), 1, Min(k, Len(rms)))
    IN  lowest[Len(lowest)]

\* the first index (0-based) whose energy exceeds the threshold, else 0
RECURSIVE FirstAbove(_, _, _)
FirstAbove(rms, threshold, i) ==
    IF i >= Len(rms) THEN 0
    ELSE IF rms[i + 1] > threshold THEN i
    ELSE FirstAbove(rms, threshold, i + 1)

\* the last index (0-based) whose energy exceeds the threshold, else len - 1
RECURSIVE LastAbove(_, _, _)
LastAbove(rms, threshold, i) ==
    IF i < 0 THEN Len(rms) - 1
    ELSE IF rms[i + 1] > threshold THEN i
    ELSE LastAbove(rms, threshold, i - 1)

\* if speech_end_idx <= speech_start_idx: move the end past the start
WidthGuardNoClamp(start_idx, end_idx, len) ==
    IF end_idx <= start_idx THEN start_idx + MinSpeechFrames ELSE end_idx

WidthGuard(start_idx, end_idx, len) ==
    IF end_idx <= start_idx
    THEN Min(start_idx + MinSpeechFrames, len - 1)
    ELSE end_idx

detect_speech_activity(rms, tenths) ==
    IF rms = <<>> THEN <<0, 0>>
    ELSE LET threshold == NoiseFloor(rms, tenths) + SpeechMarginDb
             start_idx == FirstAbove(rms, threshold, 0)
             end_idx   == LastAbove(rms, threshold, Len(rms) - 1)
         IN  <<start_idx, WidthGuard(start_idx, end_idx, Len(rms))>>

-----------------------------------------------------------------------------
(* audio_analyzer.py: AudioAnalyzer                                         *)
(*                                                                          *)
(* An analyzer object is the record self = [audio_features,                 *)
(* video_duration_ms]; the cache artifact is [state |-> "absent"],          *)
(* [state |-> "unparseable"] or [state |-> "json", data |-> document].  A   *)
(* method is an operator from the object, the artifact and the decoder's    *)
(* behaviour to the returned value, the new object and artifact, and the    *)
(* number of times it ran the decoder.                                      *)

\* the time added to the last frame's time to get the duration
FramePeriodMs == 23

\* the range of valid energy readings, in dB
MinRmsDb == -60
MaxRmsDb == 0

\* the decimal digits of a natural number, most significant first
RECURSIVE Digits(_)
Digits(n) == IF n < 10 THEN <<n>> ELSE Append(Digits(n \div 10), n % 10)

\* the natural number a digit sequence denotes
RECURSIVE NumberOf(_)
NumberOf(digits) ==
    IF Len(digits) = 1 THEN digits[1]
    ELSE 10 * NumberOf(SubSeq(digits, 1, Len(digits) - 1)) + digits[Len(digits)]

\* a JSON document is a number literal (sign and digits), an array of
\* documents, or an object: a list of members (name, document) in the order
\* they were written
JsonNumber(n) ==
    [kind |-> "number", negative |-> n < 0,
     digits |-> Digits(IF n < 0 THEN -n ELSE n)]

JsonFrame(frame) ==
    [kind |-> "object",
     members |-> <<[name |-> "time_ms", value |-> JsonNumber(frame.time_ms)],
                   [name |-> "rms_db", value |-> JsonNumber(frame.rms_db)]>>]

\* json.dump of a feature dict
json_dump(features) ==
    [kind |-> "object",
     members |->
        <<[name |-> "frames",
           value |-> [kind |-> "array",
                      items |-> [k \in 1..Len(features.frames) |->
                                    JsonFrame(features.frames[k])]]],
          [name |-> "video_duration_ms",
           value |-> JsonNumber(features.video_duration_ms)]>>]

\* a json.load that reads every number literal without its sign
RECURSIVE JsonLoadUnsigned(_)
JsonLoadUnsigned(doc) ==
    IF doc.kind = "number" THEN NumberOf(doc.digits)
    ELSE IF doc.kind = "array"
    THEN [k \in 1..Len(doc.items) |-> JsonLoadUnsigned(doc.items[k])]
    ELSE [n \in { doc.members[k].name : k \in 1..Len(doc.members) } |->
             JsonLoadUnsigned(
                 doc.members[CHOOSE k \in 1..Len(doc.members) :
                                 doc.members[k].name = n].value)]

\* json.load: a number, a list, or a dict that maps each member name to the
\* value of the last member of that name
RECURSIVE json_load(_)
json_load(doc) ==
    IF doc.kind = "number"
    THEN IF doc.negative THEN 0 - NumberOf(doc.digits) ELSE NumberOf(doc.digits)
    ELSE IF doc.kind = "array"
    THEN [k \in 1..Len(doc.items) |-> json_load(doc.items[k])]
    ELSE LET names == { doc.members[k].name : k \in 1..Len(doc.members) }
             last(n) == CHOOSE k \in 1..Len(doc.members) :
                            /\ doc.members[k].name = n
                            /\ \A j \in (k + 1)..Len(doc.members) :
                                   doc.members[j].name # n
         IN  [n \in names |-> json_load(doc.members[last(n)].value)]

\* a _load_from_cache that asks for the 'frames' field only
LoadFromCacheFramesOnly(self, cache) ==
    IF cache.state # "json" THEN [ret |-> FALSE, self |-> self]
    ELSE LET data == json_load(cache.data)
         IN  IF "frames" \in DOMAIN data
             THEN [ret |-> TRUE,
                   self |-> [audio_features |-> data,
                             video_duration_ms |-> self.video_duration_ms]]
             ELSE [ret |-> FALSE, self |-> self]

\* _load_from_cache
load_from_cache(self, cache) ==
    IF cache.state = "absent" THEN [ret |-> FALSE, self |-> self]
    ELSE IF cache.state = "unparseable" THEN [ret |-> FALSE, self |-> self]
    ELSE LET data == json_load(cache.data)
         IN  IF "frames" \in DOMAIN data /\ "video_duration_ms" \in DOMAIN data
             THEN [ret |-> TRUE,
                   self |-> [audio_features |-> data,
                             video_duration_ms |-> data.video_duration_ms]]
             ELSE [ret |-> FALSE, self |-> self]

\* _save_to_cache
save_to_cache(self, cache) ==
    IF self.audio_features = None THEN cache
    ELSE [state |-> "json", data |-> json_dump(self.audio_features)]

\* _parse_full_rms_output: a line is [kind |-> "pts_time", time_ms |-> t],
\* [kind |-> "rms", rms_db |-> e] or [kind |-> "other"];
\* acc = [frames, current_time_ms]
RECURSIVE ParseLines(_, _, _)
ParseLines(lines, i, acc) ==
    IF i > Len(lines) THEN acc.frames
    ELSE IF lines[i].kind = "pts_time"
         THEN ParseLines(lines, i + 1,
                  [frames |-> acc.frames,
                   current_time_ms |-> [time_ms |-> lines[i].time_ms]])
    ELSE IF lines[i].kind = "rms" /\ acc.current_time_ms # None
              /\ MinRmsDb <= lines[i].rms_db /\ lines[i].rms_db <= MaxRmsDb
         THEN ParseLines(lines, i + 1,
                  [frames |-> Append(acc.frames,
                                  [time_ms |-> acc.current_time_ms.time_ms,
                                   rms_db |-> lines[i].rms_db]),
                   current_time_ms |-> acc.current_time_ms])
    ELSE ParseLines(lines, i + 1, acc)

parse_full_rms_output(ffmpeg_output) ==
    ParseLines(ffmpeg_output, 1, [frames |-> <<>>, current_time_ms |-> None])

\* an extraction that takes the output of a decoder run however it ended
ExtractFullWhateverOutcome(self, outcome, stderr) ==
    LET frames_data == parse_full_rms_output(stderr)
    IN  IF frames_data = <<>> THEN [ret |-> None, self |-> self]
        ELSE LET duration ==
                     frames_data[Len(frames_data)].time_ms + FramePeriodMs
             IN  [ret |-> [frames |-> frames_data,
                           video_duration_ms |-> duration],
                  self |-> [self EXCEPT !.video_duration_ms = duration]]

\* _extract_full_audio_features: it runs the decoder once, and the run ends
\* "ok" with its output, in "timeout" (subprocess.TimeoutExpired) or in
\* "error" (another exception)
extract_full_audio_features(self, outcome, stderr) ==
    IF outcome # "ok" THEN [ret |-> None, self |-> self]
    ELSE LET frames_data == parse_full_rms_output(stderr)
         IN  IF frames_data = <<>> THEN [ret |-> None, self |-> self]
             ELSE LET duration ==
                          frames_data[Len(frames_data)].time_ms + FramePeriodMs
                  IN  [ret |-> [frames |-> frames_data,
                                video_duration_ms |-> duration],
                       self |-> [self EXCEPT !.video_duration_ms = duration]]

\* load_or_extract_audio_features
load_or_extract_audio_features(self, cache, outcome, stderr) ==
    LET loaded == load_from_cache(self, cache)
    IN  IF loaded.ret
        THEN [ret |-> TRUE, self |-> loaded.self, cache |-> cache, runs |-> 0]
        ELSE LET extracted == extract_full_audio_features(self, outcome, stderr)
                 after == [extracted.self EXCEPT !.audio_features = extracted.ret]
             IN  IF after.audio_features # None
                 THEN [ret |-> TRUE, self |-> after,
                       cache |-> save_to_cache(after, cache), runs |-> 1]
                 ELSE [ret |-> FALSE, self |-> after, cache |-> cache,
                       runs |-> 1]

\* frames[start_idx:end_idx] of _get_frames_in_range; indices are 0-based
RECURSIVE FirstAtOrAfter(_, _, _)
FirstAtOrAfter(frames, t, i) ==
    IF i >= Len(frames) THEN 0
    ELSE IF frames[i + 1].time_ms >= t THEN i
    ELSE FirstAtOrAfter(frames, t, i + 1)

RECURSIVE EndAtOrBefore(_, _, _)
EndAtOrBefore(frames, t, i) ==
    IF i < 0 THEN Len(frames)
    ELSE IF frames[i + 1].time_ms <= t THEN i + 1
    ELSE EndAtOrBefore(frames, t, i - 1)

\* _get_frames_in_range
get_frames_in_range(self, start, end) ==
    IF self.audio_features = None THEN <<>>
    ELSE LET frames    == self.audio_features.frames
             start_idx == FirstAtOrAfter(frames, start, 0)
             end_idx   == EndAtOrBefore(frames, end, Len(frames) - 1)
             slice     == SubSeq(frames, start_idx + 1, end_idx)
         IN  [k \in 1..Len(slice) |-> slice[k].rms_db]

\* extract_audio_features
extract_audio_features(self, cache, outcome, stderr, start, end) ==
    IF self.audio_features = None
    THEN LET loaded == load_or_extract_audio_features(self, cache, outcome, stderr)
         IN  IF ~loaded.ret
             THEN [ret |-> <<>>, self |-> loaded.self, cache |-> loaded.cache,
                   runs |-> loaded.runs]
             ELSE [ret |-> get_frames_in_range(loaded.self, start, end),
                   self |-> loaded.self, cache |-> loaded.cache,
                   runs |-> loaded.runs]
    ELSE [ret |-> get_frames_in_range(self, start, end),
          self |-> self, cache |-> cache, runs |-> 0]

\* detect_speech_boundaries, from the energies of the window on
SpeechBoundaries(rms, start, end, tenths) ==
    IF rms = <<>> THEN <<start, end>>
    ELSE LET idx          == detect_speech_activity(rms, tenths)
             duration     == end - start
             total_frames == Len(rms)
         IN  << start + IntTrunc(idx[1] * duration, total_frames),
                start + IntTrunc(idx[2] * duration, total_frames) >>

\* detect_speech_boundaries
detect_speech_boundaries(self, cache, outcome, stderr, start, end, tenths) ==
    LET got == extract_audio_features(self, cache, outcome, stderr, start, end)
    IN  [ret |-> SpeechBoundaries(got.ret, start, end, tenths),
         self |-> got.self, cache |-> got.cache, runs |-> got.runs]

\* the default threshold_ratio of detect_speech_boundaries, in tenths
DefaultThresholdRatio == 1

\* adjust_subtitle_timing, from the speech boundaries on
AdjustTimingNoClamp(speech, subtitle_start, subtitle_end, max_delay_start, max_advance_end, min_duration) ==
    LET new_start == Min(subtitle_start + max_delay_start, speech[1])
        new_end   == Max(subtitle_end - max_advance_end, speech[2])
        long_end  == IF new_end - new_start < min_duration
                     THEN new_start + min_duration ELSE new_end
    IN  <<new_start, long_end>>

AdjustTimingExtendLast(speech, subtitle_start, subtitle_end, max_delay_start, max_advance_end, min_duration) ==
    LET new_start == Max(subtitle_start,
                         Min(subtitle_start + max_delay_start, speech[1]))
        new_end   == Min(subtitle_end,
                         Max(subtitle_end - max_advance_end, speech[2]))
    IN  << new_start,
           IF new_end - new_start < min_duration
           THEN new_start + min_duration ELSE new_end >>

\* an adjustment that follows the speech without limit
AdjustTimingNoLimit(speech, subtitle_start, subtitle_end, max_delay_start, max_advance_end, min_duration) ==
    LET long_end == IF speech[2] - speech[1] < min_duration
                    THEN speech[1] + min_duration ELSE speech[2]
    IN  << IF speech[1] < subtitle_start THEN subtitle_start ELSE speech[1],
           IF long_end > subtitle_end THEN subtitle_end ELSE long_end >>

\* adjust_subtitle_timing, from the speech boundaries on
AdjustTiming(speech, subtitle_start, subtitle_end, max_delay_start, max_advance_end, min_duration) ==
    LET new_start == Min(subtitle_start + max_delay_start, speech[1])
        new_end   == Max(subtitle_end - max_advance_end, speech[2])
        long_end  == IF new_end - new_start < min_duration
                     THEN new_start + min_duration ELSE new_end
    IN  << IF new_start < subtitle_start THEN subtitle_start ELSE new_start,
           IF long_end > subtitle_end THEN subtitle_end ELSE long_end >>

\* adjust_subtitle_timing
adjust_subtitle_timing(self, cache, outcome, stderr, subtitle_start, subtitle_end, max_delay_start, max_advance_end, min_duration) ==
    LET found == detect_speech_boundaries(self, cache, outcome, stderr,
                     subtitle_start, subtitle_end, DefaultThresholdRatio)
    IN  [ret |-> AdjustTiming(found.ret, subtitle_start, subtitle_end,
                     max_delay_start, max_advance_end, min_duration),
         self |-> found.self, cache |-> found.cache, runs |-> found.runs]

-----------------------------------------------------------------------------
(* Inputs of merge_subtitles_by_sentence *)

\* texts of caption fragments as the subtitle file holds them: plain, ended
\* by a terminal mark (and padded with whitespace), ended by a closing
\* quote, empty
FragmentTexts ==
    { <<"a">>, <<"b", ".", " ">>, <<"c", Quote>>, <<>> }

\* the k-th fragment of a caption file: consecutive, non-overlapping slots
FragmentAt(k, txt) ==
    SubtitleEntry(k, (k - 1) * 1000, k * 1000 - 100, txt)

-----------------------------------------------------------------------------
(* Specification of the sentence merger: the caption file is read fragment  *)
(* by fragment (parse_srt_file), then merge_subtitles_by_sentence is called *)
(* on the list.                                                             *)

InitMerge ==
    /\ pc = "ready"
    /\ entries = <<>>
    /\ merged = <<>>
    /\ SplitIdle
    /\ DetectIdle
    /\ AnalyzerIdle
    /\ ResolverIdle
    /\ AssIdle
    /\ TranslateIdle
    /\ ParseIdle
    /\ ConcurrentIdle

ReadFragment ==
    /\ pc = "ready"
    /\ Len(entries) < MaxFragments
    /\ \E txt \in FragmentTexts :
          entries' = Append(entries, FragmentAt(Len(entries) + 1, txt))
    /\ UNCHANGED <<pc, merged, notMergeVars>>

Merge ==
    /\ pc = "ready"
    /\ pc' = "done"
    /\ merged' = merge_subtitles_by_sentence(entries)
    /\ UNCHANGED <<entries, notMergeVars>>

NextMerge == ReadFragment \/ Merge

SpecMerge == InitMerge /\ [][NextMerge]_vars

-----------------------------------------------------------------------------
(* Inputs of _detect_speech_activity *)

\* energy levels of a frame: quiet, exactly the margin above quiet, loud
EnergyLevels == { -50, -40, -10 }

QuietDb == -50

\* the energies of the specification's example
ExampleEnergies == <<-50, -48, -10, -8, -9, -45>>

\* threshold ratios in tenths: negative, zero, the default 0.1, a half, one,
\* more than one
ThresholdRatios == { -5, 0, 1, 5, 10, 15 }

-----------------------------------------------------------------------------
(* Specification of the speech detector: the energies of a window are       *)
(* collected frame by frame, then _detect_speech_activity is called.        *)

InitDetect ==
    /\ pc = "ready"
    /\ rms_values \in { <<>>, ExampleEnergies }
    /\ threshold_ratio \in ThresholdRatios
    /\ speech_idx = <<0, 0>>
    /\ MergeIdle
    /\ SplitIdle
    /\ AnalyzerIdle
    /\ ResolverIdle
    /\ AssIdle
    /\ TranslateIdle
    /\ ParseIdle
    /\ ConcurrentIdle

CollectEnergy ==
    /\ pc = "ready"
    /\ Len(rms_values) < MaxEnergies
    /\ \E e \in (IF Len(rms_values) < MaxFreeEnergies
                  THEN EnergyLevels ELSE {QuietDb}) :
          rms_values' = Append(rms_values, e)
    /\ UNCHANGED <<pc, threshold_ratio, speech_idx, notDetectVars>>

Detect ==
    /\ pc = "ready"
    /\ pc' = "done"
    /\ speech_idx' = detect_speech_activity(rms_values, threshold_ratio)
    /\ UNCHANGED <<rms_values, threshold_ratio, notDetectVars>>

NextDetect == CollectEnergy \/ Detect

SpecDetect == InitDetect /\ [][NextDetect]_vars

-----------------------------------------------------------------------------
(* Inputs of the AudioAnalyzer *)

\* the energy readings the decoder prints: below the valid range, quiet, loud
ReadingLevels == { -70, -50, -10 }

\* the decoder output for a media file with the given readings: a banner
\* line, then for each frame its timestamp line and its energy line, one
\* frame every 250 ms
MediaOutput(readings) ==
    <<[kind |-> "other"]>> \o
    [j \in 1..(2 * Len(readings)) |->
        IF j % 2 = 1
        THEN [kind |-> "pts_time", time_ms |-> ((j + 1) \div 2) * 250]
        ELSE [kind |-> "rms", rms_db |-> readings[j \div 2]]]

\* the decoder output for a recording whose timestamps go back
DisorderedOutput ==
    << [kind |-> "other"],
       [kind |-> "pts_time", time_ms |-> 500], [kind |-> "rms", rms_db |-> -10],
       [kind |-> "pts_time", time_ms |-> 250], [kind |-> "rms", rms_db |-> -50] >>

MediaOutputs ==
    UNION { { MediaOutput(r) : r \in [1..n -> ReadingLevels] } : n \in 0..MaxFrames }
    \cup { DisorderedOutput }

\* the decoder outputs for the recordings that replace a media file: one
\* loud frame, and no valid frame at all
Replacements == { MediaOutput(<<-10>>), MediaOutput(<<-70>>) }

\* how a run of the decoder ends
DecoderOutcomes == { "ok", "timeout", "error" }

\* the feature dict a successful extraction from the decoder output builds
FeaturesOf(stderr) ==
    extract_full_audio_features(
        [audio_features |-> None, video_duration_ms |-> 0], "ok", stderr).ret

\* the artifact an earlier run left for another recording under this name
StaleFeatures ==
    [frames |-> <<[time_ms |-> 100, rms_db |-> -10],
                  [time_ms |-> 1000, rms_db |-> -50]>>,
     video_duration_ms |-> 1023]

\* the document of a feature dict with one member left out
JsonWithout(features, name) ==
    [kind |-> "object",
     members |-> SelectSeq(json_dump(features).members,
                           LAMBDA member : member.name # name)]

\* the cache artifact when the first analyzer is constructed: none, one that
\* does not parse, one without the 'frames' field, one without the
\* 'video_duration_ms' field, one saved from another recording, one saved
\* from this media file
InitialCaches(stderr) ==
    { [state |-> "absent"],
      [state |-> "unparseable"],
      [state |-> "json", data |-> JsonWithout(StaleFeatures, "frames")],
      [state |-> "json", data |-> JsonWithout(StaleFeatures, "video_duration_ms")],
      [state |-> "json", data |-> json_dump(StaleFeatures)] }
    \cup (IF FeaturesOf(stderr) = None THEN {}
          ELSE { [state |-> "json", data |-> json_dump(FeaturesOf(stderr))] })

\* cue boundaries: before the first frame, between frames, on a frame, after
\* the last frame
CueTimes == { 0, 100, 600, 1000, 2000 }

CueWindows == { w \in CueTimes \X CueTimes : w[1] <= w[2] }

\* max_delay_start, max_advance_end, min_duration: the defaults, and values
\* that are zero or negative
MaxDelayStarts == { -200, 500 }
MaxAdvanceEnds == { -200, 300 }
MinDurations == { 0, 1000 }

\* threshold ratios handed to detect_speech_boundaries, in tenths
BoundaryRatios == { 1, 5 }

-----------------------------------------------------------------------------
(* Specification of the AudioAnalyzer: an analyzer is constructed for a     *)
(* media file; its caller calls one method at a time and takes the result.  *)
(* Later another analyzer is constructed for the same path, where the       *)
(* recording may have been replaced in the meantime.                        *)

self == [audio_features |-> audio_features, video_duration_ms |-> video_duration_ms]

\* the call returns r = [ret, self, cache, runs]; a decoder run it makes
\* ends in outcome
Returns(op, args, outcome, r) ==
    /\ decoder_runs' = r.runs
    /\ cache_found' = cache_file
    /\ decoder_outcome' = (IF r.runs > 0 THEN outcome ELSE "none")
    /\ decoder_ran' = (decoder_ran \/ r.runs > 0)
    /\ load_failed' = (/\ r.self.audio_features = None
                       /\ r.runs > 0 \/ load_failed)
    /\ pc' = "done"
    /\ call' = [op |-> op, args |-> args]
    /\ ret' = r.ret
    /\ audio_features' = r.self.audio_features
    /\ video_duration_ms' = r.self.video_duration_ms
    /\ cache_file' = r.cache
    /\ UNCHANGED <<media_stderr, notAnalyzerVars>>

InitAnalyzer ==
    /\ pc = "ready"
    /\ audio_features = None
    /\ video_duration_ms = 0
    /\ media_stderr \in MediaOutputs
    /\ cache_file \in InitialCaches(media_stderr)
    /\ decoder_runs = 0
    /\ cache_found = [state |-> "absent"]
    /\ decoder_outcome = "none"
    /\ decoder_ran = FALSE
    /\ load_failed = FALSE
    /\ call = NoCall
    /\ ret = None
    /\ MergeIdle
    /\ SplitIdle
    /\ DetectIdle
    /\ ResolverIdle
    /\ AssIdle
    /\ TranslateIdle
    /\ ParseIdle
    /\ ConcurrentIdle

\* how the decoder run of an extract_audio_features request can end: the
\* request runs the decoder only when the analyzer holds no features
RunOutcomes == IF audio_features = None THEN DecoderOutcomes ELSE {"ok"}

LoadOrExtract ==
    /\ pc = "ready"
    /\ \E outcome \in DecoderOutcomes :
          Returns("load_or_extract_audio_features", <<>>, outcome,
              load_or_extract_audio_features(self, cache_file, outcome, media_stderr))

GetFramesInRange ==
    /\ pc = "ready"
    /\ \E w \in CueWindows :
          Returns("_get_frames_in_range", w, "none",
              [ret |-> get_frames_in_range(self, w[1], w[2]),
               self |-> self, cache |-> cache_file, runs |-> 0])

ExtractAudioFeatures ==
    /\ pc = "ready"
    /\ \E outcome \in RunOutcomes, w \in CueWindows :
          Returns("extract_audio_features", w, outcome,
              extract_audio_features(self, cache_file, outcome, media_stderr,
                  w[1], w[2]))

DetectSpeechBoundaries ==
    /\ pc = "ready"
    /\ \E outcome \in RunOutcomes, w \in CueWindows, tenths \in BoundaryRatios :
          Returns("detect_speech_boundaries", <<w[1], w[2], tenths>>, outcome,
              detect_speech_boundaries(self, cache_file, outcome, media_stderr,
                  w[1], w[2], tenths))

AdjustSubtitleTiming ==
    /\ pc = "ready"
    /\ \E outcome \in RunOutcomes, w \in CueWindows,
          d \in MaxDelayStarts, a \in MaxAdvanceEnds, m \in MinDurations :
          Returns("adjust_subtitle_timing", <<w[1], w[2], d, a, m>>, outcome,
              adjust_subtitle_timing(self, cache_file, outcome, media_stderr,
                  w[1], w[2], d, a, m))

\* the caller takes the returned value and goes on
TakeResult ==
    /\ pc = "done"
    /\ pc' = "ready"
    /\ call' = NoCall
    /\ ret' = None
    /\ decoder_runs' = 0
    /\ cache_found' = [state |-> "absent"]
    /\ decoder_outcome' = "none"
    /\ UNCHANGED <<decoder_ran, load_failed, audio_features, video_duration_ms,
                   cache_file, media_stderr, notAnalyzerVars>>

\* AudioAnalyzer(video_path): another analyzer for the same path replaces
\* the one at hand
Construct ==
    /\ pc = "ready"
    /\ audio_features # None
    /\ audio_features' = None
    /\ video_duration_ms' = 0
    /\ UNCHANGED <<pc, cache_file, media_stderr, decoder_runs, cache_found,
                   decoder_outcome, decoder_ran, load_failed,
                   call, ret, notAnalyzerVars>>

\* the recording at video_path, whose features are cached, is replaced by
\* another one while no analyzer holds its features
ReplaceMedia ==
    /\ pc = "ready"
    /\ audio_features = None
    /\ FeaturesOf(media_stderr) # None
    /\ cache_file = [state |-> "json", data |-> json_dump(FeaturesOf(media_stderr))]
    /\ media_stderr' \in Replacements \ {media_stderr}
    /\ UNCHANGED <<pc, audio_features, video_duration_ms, cache_file,
                   decoder_runs, cache_found, decoder_outcome, decoder_ran,
                   load_failed, call, ret, notAnalyzerVars>>

NextAnalyzer ==
    \/ LoadOrExtract
    \/ GetFramesInRange
    \/ ExtractAudioFeatures
    \/ DetectSpeechBoundaries
    \/ AdjustSubtitleTiming
    \/ TakeResult
    \/ Construct
    \/ ReplaceMedia

SpecAnalyzer == InitAnalyzer /\ [][NextAnalyzer]_vars

-----------------------------------------------------------------------------
(* subtitle_generator.py: fix_overlaps                                      *)
(*                                                                          *)
(* An entry is the dict [start, end, chinese, english]; start and end are   *)
(* ASS times "h:mm:ss.cc", written here as the fields <<h, m, s, cs>>.      *)

\* parse_time_to_ms
parse_time_to_ms(ass_time) ==
    (ass_time[1] * 3600 + ass_time[2] * 60 + ass_time[3]) * 1000 + ass_time[4] * 10

\* ms_to_ass_time
ms_to_ass_time(ms) ==
    << ms \div 3600000,
       (ms % 3600000) \div 60000,
       (ms % 60000) \div 1000,
       (ms % 1000) \div 10 >>

\* an insertion that puts an entry before those of the same start
InsertByStartUnstable(entry, sorted) ==
    LET key(e) == parse_time_to_ms(e.start)
    IN  SelectSeq(sorted, LAMBDA e : key(e) < key(entry)) \o <<entry>>
          \o SelectSeq(sorted, LAMBDA e : key(e) >= key(entry))

\* sorted(entries, key=start in ms): a stable insertion
InsertByStart(entry, sorted) ==
    LET key(e) == parse_time_to_ms(e.start)
        before == SelectSeq(sorted, LAMBDA e : key(e) <= key(entry))
        after  == SelectSeq(sorted, LAMBDA e : key(e) > key(entry))
    IN  before \o <<entry>> \o after

RECURSIVE SortedByStart(_)
SortedByStart(es) ==
    IF es = <<>> THEN <<>>
    ELSE InsertByStart(es[Len(es)], SortedByStart(SubSeq(es, 1, Len(es) - 1)))

\* the passes fix_overlaps makes at most
max_iterations == 5

\* the shortest time an entry that is cut keeps, in ms
MinKeptMs == 500

\* a new end that is not held at 500 ms after the start
NewEndNoFloor(current_start_ms, next_start_ms, gap) == next_start_ms - gap

\* the new end of an entry that overlaps the next one
NewEndMs(current_start_ms, next_start_ms, gap) ==
    Max(current_start_ms + MinKeptMs, next_start_ms - gap)

\* a test for overlap that leaves the gap out
OverlapsTouching(curr_end_ms, next_start_ms, gap) == curr_end_ms > next_start_ms

\* the test for overlap
Overlaps(curr_end_ms, next_start_ms, gap) == curr_end_ms > next_start_ms - gap

\* one pass over the pairs from pair i on;
\* acc = [entries, has_overlap, fixed_count]
RECURSIVE OverlapPass(_, _, _)
OverlapPass(acc, gap, i) ==
    IF i > Len(acc.entries) - 1 THEN acc
    ELSE LET current       == acc.entries[i]
             next_entry    == acc.entries[i + 1]
             curr_end_ms   == parse_time_to_ms(current.end)
             next_start_ms == parse_time_to_ms(next_entry.start)
             new_end_ms    == NewEndMs(parse_time_to_ms(current.start),
                                       next_start_ms, gap)
         IN  IF Overlaps(curr_end_ms, next_start_ms, gap)
             THEN OverlapPass(
                      [entries |-> [acc.entries EXCEPT
                                       ![i].end = ms_to_ass_time(new_end_ms)],
                       has_overlap |-> TRUE,
                       fixed_count |-> acc.fixed_count + 1],
                      gap, i + 1)
             ELSE OverlapPass(acc, gap, i + 1)

\* the loop over the passes; passes holds what each pass so far left
RECURSIVE FixLoop(_, _, _, _)
FixLoop(es, gap, iteration, passes) ==
    IF iteration >= max_iterations
    THEN [entries |-> es, iterations |-> passes]
    ELSE LET pass == OverlapPass(
                         [entries |-> es, has_overlap |-> FALSE, fixed_count |-> 0],
                         gap, 1)
         IN  IF ~pass.has_overlap
             THEN [entries |-> pass.entries, iterations |-> Append(passes, pass)]
             ELSE FixLoop(pass.entries, gap, iteration + 1, Append(passes, pass))

\* fix_overlaps
fix_overlaps(es, gap) == FixLoop(SortedByStart(es), gap, 0, <<>>)

-----------------------------------------------------------------------------
(* Inputs and specification of fix_overlaps: entries are read from the      *)
(* subtitle file in any order, then the resolver is called once.            *)

\* start times and lengths of entries, in ms: entries that overlap, touch,
\* lie closer than the gap and lie apart, on both sides of the minute
EntryStarts == { 0, 300, 59000, 60000 }
EntryLengths == { 200, 500, 1500 }

\* values of min_gap_ms: none, the default, one that is no whole centisecond
MinGaps == { 0, 100, 105 }

\* the entry parse_srt_content builds
AssEntry(start, length) ==
    [start |-> ms_to_ass_time(start), end |-> ms_to_ass_time(start + length),
     chinese |-> <<>>, english |-> <<>>]

InitOverlap ==
    /\ pc = "ready"
    /\ min_gap_ms \in MinGaps
    /\ ass_entries = <<>>
    /\ sorted_entries = <<>>
    /\ iterations = <<>>
    /\ subtitles = <<>>
    /\ fixed_subtitles = <<>>
    /\ MergeIdle
    /\ SplitIdle
    /\ DetectIdle
    /\ AnalyzerIdle
    /\ AssIdle
    /\ TranslateIdle
    /\ ParseIdle
    /\ ConcurrentIdle

\* parse_srt_content appends one more entry
ReadEntry ==
    /\ pc = "ready"
    /\ Len(ass_entries) < MaxEntries
    /\ \E start \in EntryStarts, length \in EntryLengths :
          ass_entries' = Append(ass_entries, AssEntry(start, length))
    /\ UNCHANGED <<pc, min_gap_ms, sorted_entries, iterations, subtitles,
                   fixed_subtitles, notResolverVars>>

FixOverlaps ==
    /\ pc = "ready"
    /\ pc' = "done"
    /\ LET fixed == fix_overlaps(ass_entries, min_gap_ms)
       IN  /\ sorted_entries' = fixed.entries
           /\ iterations' = fixed.iterations
    /\ UNCHANGED <<min_gap_ms, ass_entries, subtitles, fixed_subtitles,
                   notResolverVars>>

NextOverlap ==
    \/ ReadEntry
    \/ FixOverlaps

SpecOverlap == InitOverlap /\ [][NextOverlap]_vars

-----------------------------------------------------------------------------
(* sentence_subtitle_optimizer.py: fix_overlaps_gentle                      *)
(*                                                                          *)
(* A subtitle is the dict [start, end, english, chinese] with start and end *)
(* in ms; the list is changed in place.                                     *)

\* the display time a subtitle that is cut keeps, in ms
min_duration == 1000

\* a delayed start that leaves the gap out
DelayedStartNoGap(current_end, gap) == current_end

\* the start a subtitle gets when the one before it cannot be cut
DelayedStart(current_end, gap) == current_end + gap

\* the pass over the pairs from pair i on
RECURSIVE GentlePass(_, _, _)
GentlePass(subs, gap, i) ==
    IF i > Len(subs) - 1 THEN subs
    ELSE LET current     == subs[i]
             next_sub    == subs[i + 1]
             current_end == current.end
             next_start  == next_sub.start
             ideal_end   == next_start - gap
         IN  IF current_end > next_start - gap
             THEN IF ideal_end >= current.start + min_duration
                  THEN GentlePass([subs EXCEPT ![i].end = ideal_end], gap, i + 1)
                  ELSE GentlePass(
                           [subs EXCEPT ![i + 1].start =
                                            DelayedStart(current_end, gap)],
                           gap, i + 1)
             ELSE GentlePass(subs, gap, i + 1)

\* fix_overlaps_gentle
fix_overlaps_gentle(subs, gap) ==
    IF Len(subs) <= 1 THEN subs ELSE GentlePass(subs, gap, 1)

-----------------------------------------------------------------------------
(* Inputs and specification of fix_overlaps_gentle: the translated          *)
(* subtitles are collected, then the resolver is called once.               *)

\* start times and lengths of subtitles, in ms: shorter than, equal to and
\* longer than the 1000 ms a cut subtitle keeps
SubtitleStarts == { 0, 1000, 1500, 3000 }
SubtitleLengths == { 400, 1000, 5000 }

\* values of min_gap_ms: none and the default
GentleGaps == { 0, 200 }

\* the dict translate_sentences builds
Subtitle(start, length) ==
    [start |-> start, end |-> start + length, english |-> <<>>, chinese |-> <<>>]

InitGentle ==
    /\ pc = "ready"
    /\ min_gap_ms \in GentleGaps
    /\ subtitles = <<>>
    /\ fixed_subtitles = <<>>
    /\ ass_entries = <<>>
    /\ sorted_entries = <<>>
    /\ iterations = <<>>
    /\ MergeIdle
    /\ SplitIdle
    /\ DetectIdle
    /\ AnalyzerIdle
    /\ AssIdle
    /\ TranslateIdle
    /\ ParseIdle
    /\ ConcurrentIdle

\* translate_sentences appends one more subtitle
AppendSubtitle ==
    /\ pc = "ready"
    /\ Len(subtitles) < MaxSubtitles
    /\ \E start \in SubtitleStarts, length \in SubtitleLengths :
          subtitles' = Append(subtitles, Subtitle(start, length))
    /\ UNCHANGED <<pc, min_gap_ms, fixed_subtitles, ass_entries, sorted_entries,
                   iterations, notResolverVars>>

FixOverlapsGentle ==
    /\ pc = "ready"
    /\ pc' = "done"
    /\ fixed_subtitles' = fix_overlaps_gentle(subtitles, min_gap_ms)
    /\ UNCHANGED <<min_gap_ms, subtitles, ass_entries, sorted_entries,
                   iterations, notResolverVars>>

NextGentle ==
    \/ AppendSubtitle
    \/ FixOverlapsGentle

SpecGentle == InitGentle /\ [][NextGentle]_vars

-----------------------------------------------------------------------------
(* subtitle_generator.py: generate_styled_ass, style_config.py: STYLES      *)
(*                                                                          *)
(* A text is a sequence of characters and of markup tokens: an override     *)
(* block is the tokens "{", "\\c" or "\\fs", its value, "}"; the line break *)
(* is the token "\\N".  A Dialogue line is [start, end, text].              *)

\* STYLES; a value that is not None is [some |-> its text]; the
\* ass_style_line goes to the header and is left out
STYLES ==
    [obama |-> [order |-> "eng_first", english_color |-> None,
                english_fontsize |-> None],
     box_classic |-> [order |-> "chi_first",
                      english_color |-> [some |-> "&H00FFFF&"],
                      english_fontsize |-> [some |-> "45"]]]

\* the line-break marker
LineBreak == "\\N"

\* the English text with the override blocks of the style put before it
StyledEnglish(style_config, english) ==
    LET coloured == IF style_config.english_color # None
                    THEN <<"{", "\\c", style_config.english_color.some, "}">>
                           \o english
                    ELSE english
    IN  IF style_config.english_fontsize # None
        THEN <<"{", "\\fs", style_config.english_fontsize.some, "}">> \o coloured
        ELSE coloured

\* the text of a Dialogue line
DialogueText(style_config, entry) ==
    LET eng_text == StyledEnglish(style_config, entry.english)
        chi_text == entry.chinese
        first    == IF style_config.order = "eng_first" THEN eng_text ELSE chi_text
        second   == IF style_config.order = "eng_first" THEN chi_text ELSE eng_text
    IN  (IF first # <<>> THEN first ELSE <<>>)
        \o (IF eng_text # <<>> /\ chi_text # <<>> THEN <<LineBreak>> ELSE <<>>)
        \o (IF second # <<>> THEN second ELSE <<>>)

\* the default of min_gap_ms, with which generate_styled_ass calls fix_overlaps
DefaultMinGapMs == 100

\* generate_styled_ass, from the parsed entries on: the style asked for or
\* "obama" when it is unknown, the entries fix_overlaps returns, and a line
\* for each of them
generate_styled_ass(es, name) ==
    LET style_config == IF name \in DOMAIN STYLES THEN STYLES[name]
                        ELSE STYLES["obama"]
        fixed == fix_overlaps(es, DefaultMinGapMs)
    IN  [fixed |-> fixed,
         lines |-> [k \in 1..Len(fixed.entries) |->
                       [start |-> fixed.entries[k].start,
                        end |-> fixed.entries[k].end,
                        text |-> DialogueText(style_config, fixed.entries[k])]]]

-----------------------------------------------------------------------------
(* Inputs and specification of generate_styled_ass: the entries of the      *)
(* subtitle file are parsed, then the lines are written.                    *)

\* the style names asked for: the two configured ones and an unknown one
StyleNames == { "obama", "box_classic", "karaoke" }

\* the English and the Chinese line of a block: absent or blank, or a text
EnglishTexts == { <<>>, <<"h", "i">> }
ChineseTexts == { <<>>, <<"U+4F60", "U+597D">> }

\* start times of the blocks, in ms; each lasts DialogueMs
DialogueStarts == { 0, 1000 }
DialogueMs == 1500

InitAss ==
    /\ pc = "ready"
    /\ style_name \in StyleNames
    /\ ass_lines = <<>>
    /\ min_gap_ms = DefaultMinGapMs
    /\ ass_entries = <<>>
    /\ sorted_entries = <<>>
    /\ iterations = <<>>
    /\ subtitles = <<>>
    /\ fixed_subtitles = <<>>
    /\ MergeIdle
    /\ SplitIdle
    /\ DetectIdle
    /\ AnalyzerIdle
    /\ TranslateIdle
    /\ ParseIdle
    /\ ConcurrentIdle

\* parse_srt_content appends the entry of one more block
ReadBlock ==
    /\ pc = "ready"
    /\ Len(ass_entries) < MaxDialogues
    /\ \E start \in DialogueStarts, eng \in EnglishTexts, chi \in ChineseTexts :
          ass_entries' = Append(ass_entries,
              [start |-> ms_to_ass_time(start),
               end |-> ms_to_ass_time(start + DialogueMs),
               chinese |-> chi, english |-> eng])
    /\ UNCHANGED <<pc, style_name, ass_lines, min_gap_ms, sorted_entries,
                   iterations, subtitles, fixed_subtitles, mergeVars, splitVars,
                   detectVars, analyzerVars, translateVars, parseVars,
                   concurrentVars>>

GenerateStyledAss ==
    /\ pc = "ready"
    /\ pc' = "done"
    /\ LET written == generate_styled_ass(ass_entries, style_name)
       IN  /\ sorted_entries' = written.fixed.entries
           /\ iterations' = written.fixed.iterations
           /\ ass_lines' = written.lines
    /\ UNCHANGED <<style_name, min_gap_ms, ass_entries, subtitles,
                   fixed_subtitles, mergeVars, splitVars, detectVars,
                   analyzerVars, translateVars, parseVars, concurrentVars>>

NextAss ==
    \/ ReadBlock
    \/ GenerateStyledAss

SpecAss == InitAss /\ [][NextAss]_vars

-----------------------------------------------------------------------------
(* sentence_subtitle_optimizer.py: correct_terms, translate_sentences       *)

\* TERM_CORRECTIONS, in the order of the dict: (wrong, correct)
TERM_CORRECTIONS ==
    << 
       <<<<"C", "l", "o", "g", " ", "c", "o", "d", "e">>,
         <<"C", "l", "a", "u", "d", "e", " ", "C", "o", "d", "e">>>>,
       <<<<"c", "l", "o", "g", " ", "c", "o", "d", "e">>,
         <<"C", "l", "a", "u", "d", "e", " ", "C", "o", "d", "e">>>>,
       <<<<"c", "l", "a", "u", "d", "e", " ", "c", "o", "d", "e">>,
         <<"C", "l", "a", "u", "d", "e", " ", "C", "o", "d", "e">>>>,
       <<<<"C", "l", "a", "u", "d", "e", " ", "c", "o", "d", "e">>,
         <<"C", "l", "a", "u", "d", "e", " ", "C", "o", "d", "e">>>>,
       <<<<"c", "l", "o", "u", "d", " ", "c", "o", "d", "e">>,
         <<"C", "l", "a", "u", "d", "e", " ", "C", "o", "d", "e">>>>,
       <<<<"C", "l", "o", "u", "d", " ", "c", "o", "d", "e">>,
         <<"C", "l", "a", "u", "d", "e", " ", "C", "o", "d", "e">>>>,
       <<<<"C", "u", "r", "s", "o", "r">>,
         <<"C", "u", "r", "s", "o", "r", " ", "I", "D", "E">>>>,
       <<<<"c", "u", "r", "s", "o", "r">>,
         <<"C", "u", "r", "s", "o", "r", " ", "I", "D", "E">>>>,
       <<<<"W", "i", "n", "d", "s", "u", "r", "f">>,
         <<"W", "i", "n", "d", "s", "u", "r", "f", " ", "I", "D", "E">>>>,
       <<<<"M", "C", "P">>,
         <<"M", "C", "P">>>>,
       <<<<"A", "g", "e", "n", "t", " ", "O", "S">>,
         <<"A", "g", "e", "n", "t", " ", "O", "S">>>>,
       <<<<"A", "g", "e", "n", "t", " ", "o", "s">>,
         <<"A", "g", "e", "n", "t", " ", "O", "S">>>> >>

LowerLetters ==
    << "a", "b", "c", "d", "e", "f", "g", "h", "i", "j", "k", "l", "m",
       "n", "o", "p", "q", "r", "s", "t", "u", "v", "w", "x", "y", "z" >>

UpperLetters ==
    << "A", "B", "C", "D", "E", "F", "G", "H", "I", "J", "K", "L", "M",
       "N", "O", "P", "Q", "R", "S", "T", "U", "V", "W", "X", "Y", "Z" >>

\* the character in lower case (re.IGNORECASE compares without case)
LowerCase(c) ==
    IF \E k \in 1..26 : UpperLetters[k] = c
    THEN LowerLetters[CHOOSE k \in 1..26 : UpperLetters[k] = c]
    ELSE c

\* \w of the regular expression: not whitespace, not punctuation
IsWordChar(c) ==
    c \notin Whitespace \cup PrimaryMarks \cup SecondaryMarks
               \cup { Quote, "U+2026", "[", "]", "'", "-" }

\* \bwrong\b matches txt at position i, whatever the case
TermAt(txt, i, wrong) ==
    /\ i + Len(wrong) - 1 <= Len(txt)
    /\ \A k \in 1..Len(wrong) : LowerCase(txt[i + k - 1]) = LowerCase(wrong[k])
    /\ i = 1 \/ ~IsWordChar(txt[i - 1])
    /\ i + Len(wrong) > Len(txt) \/ ~IsWordChar(txt[i + Len(wrong)])

\* re.sub of one term from position i on: matches are taken left to right
RECURSIVE SubTerm(_, _, _, _)
SubTerm(txt, i, wrong, correct) ==
    IF i > Len(txt) THEN <<>>
    ELSE IF TermAt(txt, i, wrong)
         THEN correct \o SubTerm(txt, i + Len(wrong), wrong, correct)
         ELSE <<txt[i]>> \o SubTerm(txt, i + 1, wrong, correct)

\* the loop over TERM_CORRECTIONS from term k on
RECURSIVE CorrectFrom(_, _)
CorrectFrom(txt, k) ==
    IF k > Len(TERM_CORRECTIONS) THEN txt
    ELSE CorrectFrom(
             SubTerm(txt, 1, TERM_CORRECTIONS[k][1], TERM_CORRECTIONS[k][2]),
             k + 1)

\* correct_terms
correct_terms(txt) == CorrectFrom(txt, 1)

\* the translation put in place of one that failed: "[翻译失败]"
TranslationFailed == <<"[", "U+7FFB", "U+8BD1", "U+5931", "U+8D25", "]">>

\* what translator.translate returns for a text when it does not raise: the
\* translation, padded with whitespace
Translation(seg_english) ==
    <<" ">> \o [k \in 1..Len(seg_english) |-> "U+8BD1"] \o <<" ">>

\* the subtitles of the segments of sentence i from segment j on; the
\* translator call for segment j of sentence i raises when <<i, j>> is in
\* fails, and then the rest of the sentence is given up for one subtitle
\* that spans the sentence
RECURSIVE TranslateSegments(_, _, _, _, _)
TranslateSegments(sentence, english, split_sentences, j, fails) ==
    IF j > Len(split_sentences) THEN <<>>
    ELSE IF j \in fails
         THEN << [start |-> sentence[1], end |-> sentence[2],
                  english |-> english, chinese |-> TranslationFailed] >>
         ELSE << [start |-> split_sentences[j][1],
                  end |-> split_sentences[j][2],
                  english |-> split_sentences[j][3],
                  chinese |-> Strip(Translation(split_sentences[j][3]))] >>
              \o TranslateSegments(sentence, english, split_sentences, j + 1, fails)

\* a failure handler that gives the whole batch up
RECURSIVE TranslateFromAbort(_, _, _)
TranslateFromAbort(sents, i, fails) ==
    IF i > Len(sents) THEN <<>>
    ELSE LET english == correct_terms(sents[i][3])
             split_sentences ==
                 split_long_sentence_by_duration(sents[i][1], sents[i][2], english)
             mine == { p[2] : p \in { q \in fails : q[1] = i } }
         IN  TranslateSegments(sents[i], english, split_sentences, 1, mine)
             \o (IF \E j \in 1..Len(split_sentences) : j \in mine THEN <<>>
                 ELSE TranslateFromAbort(sents, i + 1, fails))

\* the loop over the sentences from sentence i on
RECURSIVE TranslateFrom(_, _, _)
TranslateFrom(sents, i, fails) ==
    IF i > Len(sents) THEN <<>>
    ELSE LET english == correct_terms(sents[i][3])
             split_sentences ==
                 split_long_sentence_by_duration(sents[i][1], sents[i][2], english)
             mine == { p[2] : p \in { q \in fails : q[1] = i } }
         IN  TranslateSegments(sents[i], english, split_sentences, 1, mine)
             \o TranslateFrom(sents, i + 1, fails)

\* translate_sentences
translate_sentences(sents, fails) == TranslateFrom(sents, 1, fails)

-----------------------------------------------------------------------------
(* Inputs and specification of translate_sentences: the merged sentences    *)
(* follow one another, then the batch is translated once; any of the        *)
(* translator calls may raise.                                              *)

\* sentence texts: one sentence, two sentences, one with a term to correct
SentenceTexts ==
    { <<"a", ".">>, <<"a", ".", " ", "b", ".">>, <<"m", "c", "p", ".">> }

\* sentence lengths in ms: not split, split at sentence marks
SentenceLengths == { 2000, 6000 }

\* the translator calls of a batch in which none fails: <<i, j>> is the
\* call for segment j of sentence i
TranslatorCalls(sents) ==
    UNION { {i} \X (1..Len(split_long_sentence_by_duration(
                               sents[i][1], sents[i][2], correct_terms(sents[i][3]))))
            : i \in 1..Len(sents) }

InitTranslate ==
    /\ pc = "ready"
    /\ sentences = <<>>
    /\ failing = {}
    /\ results = <<>>
    /\ MergeIdle
    /\ SplitIdle
    /\ DetectIdle
    /\ AnalyzerIdle
    /\ ResolverIdle
    /\ AssIdle
    /\ ParseIdle
    /\ ConcurrentIdle

\* merge_subtitles_by_sentence hands over one more sentence, which starts
\* where the one before it ends
NextSentence ==
    /\ pc = "ready"
    /\ Len(sentences) < MaxSentences
    /\ \E length \in SentenceLengths, txt \in SentenceTexts :
          LET start == IF sentences = <<>> THEN 0
                       ELSE sentences[Len(sentences)][2]
          IN  sentences' = Append(sentences, <<start, start + length, txt>>)
    /\ UNCHANGED <<pc, failing, results, notTranslateVars>>

TranslateSentences ==
    /\ pc = "ready"
    /\ pc' = "done"
    /\ \E fails \in SUBSET TranslatorCalls(sentences) :
          /\ failing' = fails
          /\ results' = translate_sentences(sentences, fails)
    /\ UNCHANGED <<sentences, notTranslateVars>>

NextTranslate ==
    \/ NextSentence
    \/ TranslateSentences

SpecTranslate == InitTranslate /\ [][NextTranslate]_vars

-----------------------------------------------------------------------------
(* Inputs and specification of _parse_full_rms_output: the decoder prints   *)
(* lines in any order, then the output is parsed once.                      *)

\* the times of the timestamp lines, in ms
MarkerTimes == { 250, 500 }

\* the energies of the energy lines, in dB: below the valid range, its
\* lowest value, inside it, its highest value, above it
PrintedLevels == { -61, -60, -10, 0, 5 }

\* the lines a decoder output is made of
OutputLines ==
    { [kind |-> "pts_time", time_ms |-> t] : t \in MarkerTimes }
    \cup { [kind |-> "rms", rms_db |-> e] : e \in PrintedLevels }
    \cup { [kind |-> "other"] }

InitParse ==
    /\ pc = "ready"
    /\ output_lines = <<>>
    /\ parsed_frames = <<>>
    /\ MergeIdle
    /\ SplitIdle
    /\ DetectIdle
    /\ AnalyzerIdle
    /\ ResolverIdle
    /\ AssIdle
    /\ TranslateIdle
    /\ ConcurrentIdle

\* the decoder prints one more line
PrintLine ==
    /\ pc = "ready"
    /\ Len(output_lines) < MaxLines
    /\ \E line \in OutputLines : output_lines' = Append(output_lines, line)
    /\ UNCHANGED <<pc, parsed_frames, notParseVars>>

ParseFullRmsOutput ==
    /\ pc = "ready"
    /\ pc' = "done"
    /\ parsed_frames' = parse_full_rms_output(output_lines)
    /\ UNCHANGED <<output_lines, notParseVars>>

NextParse ==
    \/ PrintLine
    \/ ParseFullRmsOutput

SpecParse == InitParse /\ [][NextParse]_vars

-----------------------------------------------------------------------------
(* Concurrent load_or_extract_audio_features calls for one media path, each *)
(* on an analyzer of its own.  A call goes through _load_from_cache, the    *)
(* decoder run of _extract_full_audio_features, and _save_to_cache, which   *)
(* opens the file for writing, writes the document in chunks and closes it. *)
(* The file is [exists, chunks]: chunks[k] tells whether chunk k of the     *)
(* document is in the file; a file without all its chunks does not parse.   *)

Requests == 1..MaxRequests

\* the chunks json.dump writes the document in
CacheChunks == 2

\* the file holds the whole document
Complete(file) ==
    /\ file.exists
    /\ Len(file.chunks) = CacheChunks
    /\ \A k \in 1..CacheChunks : file.chunks[k]

\* open(cache_file, 'w'): the file is created or emptied
Truncated == [exists |-> TRUE, chunks |-> <<>>]

\* f.write of chunk k at its place in the file; a file that was emptied
\* in the meantime is filled up to that place with nothing
WriteAt(file, k) ==
    [exists |-> TRUE,
     chunks |-> [j \in 1..Max(Len(file.chunks), k) |->
                    IF j = k THEN TRUE
                    ELSE IF j <= Len(file.chunks) THEN file.chunks[j] ELSE FALSE]]

\* a request moves to the place named; the others stay
MoveTo(p, place) == request_at' = [request_at EXCEPT ![p] = place]

InitConcurrent ==
    /\ pc = "ready"
    /\ request_at = [p \in Requests |-> "called"]
    /\ observed = [p \in Requests |-> "nothing"]
    /\ offset = [p \in Requests |-> 0]
    /\ returned = [p \in Requests |-> "nothing"]
    /\ artifact \in { [exists |-> FALSE, chunks |-> <<>>],
                      [exists |-> TRUE, chunks |-> [k \in 1..CacheChunks |-> TRUE]] }
    /\ MergeIdle
    /\ SplitIdle
    /\ DetectIdle
    /\ AnalyzerIdle
    /\ ResolverIdle
    /\ AssIdle
    /\ TranslateIdle
    /\ ParseIdle

\* _load_from_cache: no file, a file that parses, or one that does not
LoadFromCache(p) ==
    /\ request_at[p] = "called"
    /\ observed' = [observed EXCEPT ![p] =
                       IF ~artifact.exists THEN "absent"
                       ELSE IF Complete(artifact) THEN "complete" ELSE "partial"]
    /\ IF Complete(artifact)
       THEN MoveTo(p, "returned") /\ returned' = [returned EXCEPT ![p] = "True"]
       ELSE MoveTo(p, "missed") /\ UNCHANGED returned
    /\ UNCHANGED <<pc, offset, artifact, notConcurrentVars>>

\* _extract_full_audio_features: the decoder run; without features the call
\* returns False
RunDecoder(p) ==
    /\ request_at[p] = "missed"
    /\ \E outcome \in DecoderOutcomes :
          IF outcome = "ok"
          THEN MoveTo(p, "extracted") /\ UNCHANGED returned
          ELSE MoveTo(p, "returned") /\ returned' = [returned EXCEPT ![p] = "False"]
    /\ UNCHANGED <<pc, observed, offset, artifact, notConcurrentVars>>

\* an open of the cache file that waits until no other call has it open
OpenCacheFileExclusive(p) ==
    /\ request_at[p] = "extracted"
    /\ \A q \in Requests : request_at[q] # "writing"
    /\ MoveTo(p, "writing")
    /\ artifact' = Truncated
    /\ UNCHANGED <<pc, observed, offset, returned, notConcurrentVars>>

\* _save_to_cache: open(cache_file, 'w')
OpenCacheFile(p) ==
    /\ request_at[p] = "extracted"
    /\ MoveTo(p, "writing")
    /\ artifact' = Truncated
    /\ UNCHANGED <<pc, observed, offset, returned, notConcurrentVars>>

\* _save_to_cache: json.dump writes the next chunk
WriteChunk(p) ==
    /\ request_at[p] = "writing"
    /\ offset[p] < CacheChunks
    /\ offset' = [offset EXCEPT ![p] = offset[p] + 1]
    /\ artifact' = WriteAt(artifact, offset[p] + 1)
    /\ UNCHANGED <<pc, request_at, observed, returned, notConcurrentVars>>

\* _save_to_cache: the file is closed, and the call returns True
CloseCacheFile(p) ==
    /\ request_at[p] = "writing"
    /\ offset[p] = CacheChunks
    /\ MoveTo(p, "returned")
    /\ returned' = [returned EXCEPT ![p] = "True"]
    /\ UNCHANGED <<pc, observed, offset, artifact, notConcurrentVars>>

NextConcurrent ==
    \E p \in Requests :
        \/ LoadFromCache(p)
        \/ RunDecoder(p)
        \/ OpenCacheFile(p)
        \/ WriteChunk(p)
        \/ CloseCacheFile(p)

SpecConcurrent == InitConcurrent /\ [][NextConcurrent]_vars

-----------------------------------------------------------------------------
(* Claims about the sentence merger *)

\* the fragments a span covers: those whose time slot lies inside the span
\* (the slots of the input fragments are disjoint and ascending)
MembersOf(span) ==
    { i \in 1..Len(entries) :
        span[1] <= entries[i].start_ms /\ entries[i].end_ms <= span[2] }

\* the texts of fragments lo..hi, in input order
TextsOf(lo, hi) == [j \in 1..(hi - lo + 1) |-> entries[lo + j - 1].text]

\* the text ends a sentence for the merger: terminal marker or closing quote
ClosesSpan(txt) == is_sentence_end(txt) \/ EndsWith(txt, <<Quote>>)

\* C1: merge completeness.  Every input fragment belongs to exactly one span,
\* spans follow the input order, each span's text is the space-joined texts
\* of its members, and the space-joined span texts equal the space-joined
\* input texts: nothing dropped, duplicated or reordered.
C1_MergeCompleteness ==
    pc = "done" =>
        LET members == [k \in 1..Len(merged) |-> MembersOf(merged[k])]
        IN  /\ \A i \in 1..Len(entries) :
                  Cardinality({ k \in 1..Len(merged) : i \in members[k] }) = 1
            /\ \A k \in 1..Len(merged) :
                  /\ members[k] # {}
                  /\ k < Len(merged) =>
                        \A i \in members[k], j \in members[k + 1] : i < j
                  /\ \E lo \in members[k] :
                        \E hi \in members[k] :
                          /\ members[k] = lo..hi
                          /\ merged[k][3] = Join(TextsOf(lo, hi))
            /\ Join([k \in 1..Len(merged) |-> merged[k][3]])
                  = Join(TextsOf(1, Len(entries)))

\* C1 witness: a merge that emitted a span at the cap, a span closed by a
\* terminal marker and a final span closed by the end of the input
C1_Witness ==
    /\ pc = "done"
    /\ Len(merged) >= 3
    /\ \E k \in 1..Len(merged) : Cardinality(MembersOf(merged[k])) = MaxGroup
    /\ \E k \in 1..Len(merged) :
          Cardinality(MembersOf(merged[k])) < MaxGroup /\ ClosesSpan(merged[k][3])
    /\ ~ClosesSpan(merged[Len(merged)][3])

\* C2: span closing.  No span has more than 5 members; inside a span no
\* fragment follows a prefix whose accumulated text already ended in a
\* terminal marker or closing quote; every span but the last ends in such a
\* marker or has exactly 5 members; a span starts at its first member's
\* start and ends at its last member's end.
C2_SpanClosing ==
    pc = "done" =>
        \A k \in 1..Len(merged) :
            \E lo, hi \in 1..Len(entries) :
                /\ lo <= hi
                /\ merged[k][1] = entries[lo].start_ms
                /\ merged[k][2] = entries[hi].end_ms
                /\ merged[k][3] = Join(TextsOf(lo, hi))
                /\ hi - lo + 1 <= 5
                /\ \A j \in lo..(hi - 1) : ~ClosesSpan(Join(TextsOf(lo, j)))
                /\ k < Len(merged) =>
                      ClosesSpan(merged[k][3]) \/ hi - lo + 1 = 5
                /\ k > 1 => lo > 1 /\ entries[lo - 1].end_ms = merged[k - 1][2]
                /\ k = 1 => lo = 1
                /\ k = Len(merged) => hi = Len(entries)

\* C2 witness: a span closed at the 5-fragment cap with no terminal marker,
\* followed by a span closed by a marker, followed by a last open span
C2_Witness ==
    /\ pc = "done"
    /\ Len(merged) = 3
    /\ Cardinality(MembersOf(merged[1])) = 5 /\ ~ClosesSpan(merged[1][3])
    /\ Cardinality(MembersOf(merged[2])) < 5 /\ ClosesSpan(merged[2][3])
    /\ ~ClosesSpan(merged[3][3])

-----------------------------------------------------------------------------
(* Claims about the duration splitter *)

\* C3: split coverage.  A result of more than one segment starts at
\* start_ms, ends at end_ms, and each segment ends where the next starts.
C3_SplitCoverage ==
    (pc = "done" /\ Len(segments) > 1) =>
        /\ segments[1][1] = start_ms
        /\ segments[Len(segments)][2] = end_ms
        /\ \A k \in 1..(Len(segments) - 1) : segments[k][2] = segments[k + 1][1]

\* C3 witness: a split into three or more segments, one of them stretched
\* to the minimum part time
C3_Witness ==
    /\ pc = "done"
    /\ Len(segments) >= 3
    /\ \E k \in 1..(Len(segments) - 1) :
          /\ segments[k][2] - segments[k][1] = MinPartMs
          /\ PartDuration(start_ms, end_ms, segments[k][3],
                          SumLen([j \in 1..Len(segments) |-> segments[j][3]]))
               < MinPartMs

\* C4: split partition.  For a span of at least 5000 ms every returned
\* segment satisfies start_ms <= seg.start <= seg.end <= end_ms.
C4_SplitPartition ==
    (pc = "done" /\ end_ms - start_ms >= ShortSpanMs) =>
        \A k \in 1..Len(segments) :
            /\ start_ms <= segments[k][1]
            /\ segments[k][1] <= segments[k][2]
            /\ segments[k][2] <= end_ms

\* C5: short spans are never split.  A span shorter than 5000 ms comes back
\* as the single segment (start_ms, end_ms, text), the text unchanged.
C5_ShortSpanKept ==
    (pc = "done" /\ end_ms - start_ms < 5000) =>
        segments = << <<start_ms, end_ms, text>> >>

\* C5 witness: a short span whose text holds several sentences and blanks,
\* which a longer span would have been split at
C5_Witness ==
    /\ pc = "done"
    /\ end_ms - start_ms < 5000
    /\ end_ms - start_ms > 0
    /\ Len(PartsOf(text, PrimaryMarks)) >= 2
    /\ Strip(text) # text

-----------------------------------------------------------------------------
(* Claims about the speech detector *)

\* C6: boundary containment.  For a non-empty energy list and any threshold
\* ratio, 0 <= start_index <= end_index <= len(energies) - 1; for the empty
\* list the result is (0, 0).
C6_BoundaryContainment ==
    pc = "done" =>
        IF rms_values = <<>>
        THEN speech_idx = <<0, 0>>
        ELSE /\ 0 <= speech_idx[1]
             /\ speech_idx[1] <= speech_idx[2]
             /\ speech_idx[2] <= Len(rms_values) - 1

\* C6 witness: the width guard moved the end 10 frames past a single loud
\* frame, inside a longer list
C6_Witness ==
    /\ pc = "done"
    /\ Len(rms_values) > speech_idx[1] + 11
    /\ speech_idx[2] = speech_idx[1] + 10
    /\ rms_values[speech_idx[2] + 1] = QuietDb

\* the rank of the noise floor the specification names
FloorRank == Max(1, (Len(rms_values) * threshold_ratio) \div 10)

\* v is the value at rank r of the ascending-sorted energies
IsValueAtRank(v, r) ==
    /\ \E i \in 1..Len(rms_values) : rms_values[i] = v
    /\ Cardinality({ i \in 1..Len(rms_values) : rms_values[i] < v }) < r
    /\ Cardinality({ i \in 1..Len(rms_values) : rms_values[i] <= v }) >= r

\* the (0-based) indices whose energy strictly exceeds floor + 10
IndicesAbove(floor) ==
    { i \in 0..(Len(rms_values) - 1) : rms_values[i + 1] > floor + 10 }

SetMin(S) == CHOOSE x \in S : \A y \in S : x <= y

SetMax(S) == CHOOSE x \in S : \A y \in S : x >= y

\* C7: the detector's result.  With the noise floor the value at rank
\* max(1, floor(len * ratio)) of the sorted energies (for every ratio at which
\* that rank exists, rank <= len) and the threshold floor + 10: the start is
\* the first index strictly above the threshold (0 if none), the end the last
\* such index (len - 1 if none), and an end not after the start is replaced
\* by min(start + 10, len - 1).  The example gives (2, 4).
C7_DetectorResult ==
    /\ (pc = "done" /\ rms_values # <<>> /\ FloorRank <= Len(rms_values)) =>
          \E floor \in { rms_values[i] : i \in 1..Len(rms_values) } :
              /\ IsValueAtRank(floor, FloorRank)
              /\ LET above  == IndicesAbove(floor)
                     first  == IF above = {} THEN 0 ELSE SetMin(above)
                     last   == IF above = {} THEN Len(rms_values) - 1
                               ELSE SetMax(above)
                     forced == IF first + 10 <= Len(rms_values) - 1
                               THEN first + 10 ELSE Len(rms_values) - 1
                 IN  speech_idx = <<first, IF last <= first THEN forced ELSE last>>
    /\ (pc = "done" /\ rms_values = ExampleEnergies /\ threshold_ratio = 1) =>
          speech_idx = <<2, 4>>

\* C7 witness: a ratio of one half puts the noise floor above the quietest
\* frame, so a frame above the quietest by more than 10 dB is still below
\* the threshold, and speech is found strictly inside the list
C7_Witness ==
    /\ pc = "done"
    /\ threshold_ratio = 5
    /\ FloorRank > 1
    /\ \E i \in 1..Len(rms_values) : rms_values[i] = QuietDb
    /\ IsValueAtRank(-40, FloorRank)
    /\ speech_idx[1] > 0
    /\ speech_idx[2] < Len(rms_values) - 1

-----------------------------------------------------------------------------
(* Claims about the AudioAnalyzer *)

\* the last call was adjust_subtitle_timing(subtitle_start, subtitle_end,
\* max_delay_start, max_advance_end, min_duration) and has returned
AdjustReturned == pc = "done" /\ call.op = "adjust_subtitle_timing"

\* the energies the analyzer holds for the window of the last call
WindowEnergies == get_frames_in_range(self, call.args[1], call.args[2])

\* C8: adjustment non-expansion.  For a cue with subtitle_start <=
\* subtitle_end, any audio and any max_delay_start, max_advance_end and
\* min_duration: new_start >= subtitle_start and new_end <= subtitle_end.
C8_AdjustNeverWidens ==
    (AdjustReturned /\ call.args[1] <= call.args[2]) =>
        /\ ret[1] >= call.args[1]
        /\ ret[2] <= call.args[2]

\* C8 witness: audio was found for the cue and, before the final clamp, the
\* start lay before the cue (negative max_delay_start) and the end after it
\* (stretched to min_duration)
C8_Witness ==
    /\ AdjustReturned
    /\ WindowEnergies # <<>>
    /\ LET speech == SpeechBoundaries(WindowEnergies, call.args[1], call.args[2],
                         DefaultThresholdRatio)
           raw == AdjustTimingNoClamp(speech, call.args[1], call.args[2],
                      call.args[3], call.args[4], call.args[5])
       IN  raw[1] < call.args[1] /\ raw[2] > call.args[2]

\* C9: fail open.  When no audio features are available (no feature set
\* after the decode failed, timed out or gave no valid frame) or no energies
\* are returned for the cue's window, adjust_subtitle_timing returns the
\* input (subtitle_start, subtitle_end), whatever the cue's length.
C9_FailOpen ==
    (AdjustReturned /\ (audio_features = None \/ WindowEnergies = <<>>)) =>
        ret = <<call.args[1], call.args[2]>>

\* C9 witness: the decode gave no feature set, and the cue is shorter than a
\* positive min_duration
C9_Witness ==
    /\ AdjustReturned
    /\ audio_features = None
    /\ cache_file.state # "json"
    /\ call.args[5] > 0
    /\ 0 < call.args[2] - call.args[1]
    /\ call.args[2] - call.args[1] < call.args[5]
    /\ ret = <<call.args[1], call.args[2]>>

\* the loaded frames are ordered by time
FramesOrdered ==
    \A i, j \in 1..Len(audio_features.frames) :
        i < j => audio_features.frames[i].time_ms <= audio_features.frames[j].time_ms

\* the frame lies in the window [start, end]
InWindow(frame, start, end) == start <= frame.time_ms /\ frame.time_ms <= end

\* C10: slice.  For loaded frames ordered by time and start_ms <= end_ms,
\* _get_frames_in_range returns exactly the energies, in order, of the frames
\* with start_ms <= time_ms <= end_ms: the empty list when no frame lies in
\* the window, also when the window lies after the last or before the first
\* frame.
C10_SliceExact ==
    (/\ pc = "done"
     /\ call.op = "_get_frames_in_range"
     /\ audio_features # None
     /\ call.args[1] <= call.args[2]) =>
        (FramesOrdered =>
            LET inside == SelectSeq(audio_features.frames,
                              LAMBDA f : InWindow(f, call.args[1], call.args[2]))
            IN  ret = [k \in 1..Len(inside) |-> inside[k].rms_db])

\* C25: adjust_subtitle_timing keeps the minimum display time.  For a cue
\* of at least min_duration and any audio, the returned span is at least
\* min_duration long.
C25_KeepsMinDuration ==
    (AdjustReturned /\ call.args[2] - call.args[1] >= call.args[5]) =>
        ret[2] - ret[1] >= call.args[5]

\* C26 as stated: adjust_subtitle_timing moves each boundary inward by at
\* most the maximum given for it and returns a valid interval.  For a cue
\* with subtitle_start <= subtitle_end and any audio:
\* new_start - subtitle_start <= max_delay_start,
\* subtitle_end - new_end <= max_advance_end, and new_start <= new_end.
C26_InwardByAtMostMaxima ==
    (AdjustReturned /\ call.args[1] <= call.args[2]) =>
        /\ ret[1] - call.args[1] <= call.args[3]
        /\ call.args[2] - ret[2] <= call.args[4]
        /\ ret[1] <= ret[2]

\* C26 amended: the same, for max_delay_start and max_advance_end that are
\* not negative; a negative maximum leaves the boundary where the cue has it.
C26_InwardByAtMostNonNegativeMaxima ==
    (AdjustReturned /\ call.args[1] <= call.args[2]) =>
        /\ ret[1] <= ret[2]
        /\ IF call.args[3] >= 0
           THEN ret[1] - call.args[1] <= call.args[3]
           ELSE ret[1] = call.args[1]
        /\ IF call.args[4] >= 0
           THEN call.args[2] - ret[2] <= call.args[4]
           ELSE ret[2] = call.args[2]

\* C26 witness: the speech starts later than max_delay_start after the cue
\* starts, so that the start is moved by max_delay_start, and the end is
\* moved as well
C26_Witness ==
    /\ AdjustReturned
    /\ WindowEnergies # <<>>
    /\ call.args[3] > 0
    /\ call.args[4] > 0
    /\ SpeechBoundaries(WindowEnergies, call.args[1], call.args[2],
           DefaultThresholdRatio)[1] > call.args[1] + call.args[3]
    /\ ret[1] = call.args[1] + call.args[3]
    /\ ret[2] < call.args[2]

\* C21: frame ordering.  After load_or_extract_audio_features has returned
\* True, the frames the analyzer holds are in the order of their times,
\* whether they were parsed from the decoder output or loaded from the cache
\* artifact.
C21_FramesOrdered ==
    (/\ pc = "done"
     /\ call.op = "load_or_extract_audio_features"
     /\ ret = TRUE) =>
        FramesOrdered

-----------------------------------------------------------------------------
(* Claims about the feature cache *)

\* the step is a call of load_or_extract_audio_features
LoadCalled ==
    /\ pc = "ready"
    /\ pc' = "done"
    /\ call'.op = "load_or_extract_audio_features"

\* the artifact an analyzer leaves when it has extracted and saved features
ArtifactOf(features) == [state |-> "json", data |-> json_dump(features)]

\* the feature sets an extraction can yield
Extractable == { FeaturesOf(stderr) : stderr \in MediaOutputs } \ {None}

\* C11: cache round trip.  A call that extracts features leaves them as the
\* artifact; and when the artifact is one an analyzer saved after an
\* extraction, a later load_or_extract_audio_features holds exactly the
\* saved frames and video_duration_ms, has not run the decoder and has left
\* the artifact alone, whatever recording is at the path by then.
C11_CacheRoundTrip ==
    /\ [](pc = "done" /\ decoder_runs > 0 /\ audio_features # None =>
             cache_file = ArtifactOf(audio_features))
    /\ [][LoadCalled =>
             \A saved \in Extractable :
                 cache_file = ArtifactOf(saved) =>
                     /\ ret' = TRUE
                     /\ audio_features' = saved
                     /\ video_duration_ms' = saved.video_duration_ms
                     /\ decoder_runs' = 0
                     /\ cache_file' = cache_file]_vars

\* C11 witness: the load returned features with a valid negative energy
\* that are not those of the recording now at the path, which was replaced
\* after its features were saved
C11_Witness ==
    /\ pc = "done"
    /\ call.op = "load_or_extract_audio_features"
    /\ decoder_runs = 0
    /\ audio_features \in Extractable
    /\ audio_features # FeaturesOf(media_stderr)
    /\ \E k \in 1..Len(audio_features.frames) : audio_features.frames[k].rms_db < 0
    /\ cache_file = ArtifactOf(audio_features)

\* the member names of the document in the artifact
MemberNames(cache) ==
    { cache.data.members[k].name : k \in 1..Len(cache.data.members) }

\* the artifact is malformed: it does not parse, or lacks a required field
Malformed(cache) ==
    \/ cache.state = "unparseable"
    \/ /\ cache.state = "json"
       /\ ~({"frames", "video_duration_ms"} \subseteq MemberNames(cache))

LoadReturned == pc = "done" /\ call.op = "load_or_extract_audio_features"

\* C12: a malformed artifact is a cache miss.  When
\* load_or_extract_audio_features finds an artifact that does not parse or
\* lacks 'frames' or 'video_duration_ms', it runs the decoder; when the
\* extraction yields features it returns True, holds the features extracted
\* from the recording at the path and has overwritten the artifact with
\* them; otherwise it returns False and holds no features.
C12_MalformedIsMiss ==
    (LoadReturned /\ Malformed(cache_found)) =>
        /\ decoder_runs = 1
        /\ \/ /\ ret = TRUE
              /\ audio_features = FeaturesOf(media_stderr)
              /\ audio_features # None
              /\ video_duration_ms = audio_features.video_duration_ms
              /\ cache_file = ArtifactOf(audio_features)
              /\ cache_file # cache_found
           \/ /\ ret = FALSE
              /\ audio_features = None
              /\ cache_file = cache_found

\* C12 witness: an artifact that holds 'frames' and lacks
\* 'video_duration_ms' was overwritten with freshly extracted features
C12_Witness ==
    /\ LoadReturned
    /\ cache_found.state = "json"
    /\ MemberNames(cache_found) = {"frames"}
    /\ ret = TRUE
    /\ decoder_runs = 1
    /\ cache_file = ArtifactOf(FeaturesOf(media_stderr))

-----------------------------------------------------------------------------
(* Claims about fix_overlaps *)

\* start and end of the i-th entry of a list, in ms
StartMs(es, i) == parse_time_to_ms(es[i].start)

EndMs(es, i) == parse_time_to_ms(es[i].end)

\* every entry ends at least min_gap_ms before the next one starts
Separated(es) ==
    \A i \in 1..(Len(es) - 1) : EndMs(es, i) <= StartMs(es, i + 1) - min_gap_ms

\* the loop ran all its passes and the last one still found an overlap
BudgetExhausted ==
    /\ Len(iterations) = max_iterations
    /\ iterations[max_iterations].has_overlap

\* C13: after fix_overlaps returns, every entry of the returned list ends
\* at least min_gap_ms before the next one starts, or the 5 passes were used
\* up without the loop leaving early.
C13_SeparatedOrExhausted ==
    pc = "done" => Separated(sorted_entries) \/ BudgetExhausted

\* C13 witness: the loop left early, in its second pass, after the first
\* pass had cut an entry that lay closer than the gap to the next one
C13_Witness ==
    /\ pc = "done"
    /\ Len(iterations) = 2
    /\ iterations[1].fixed_count >= 1
    /\ ~iterations[2].has_overlap
    /\ min_gap_ms > 0
    /\ \E i \in 1..(Len(sorted_entries) - 1) :
          EndMs(sorted_entries, i) = StartMs(sorted_entries, i + 1) - min_gap_ms

\* C14: fix_overlaps is idempotent.  Applied to its own result with the
\* same min_gap_ms it changes no start and no end, also when overlaps held
\* at the 500 ms floor remain.
C14_Idempotent ==
    pc = "done" => fix_overlaps(sorted_entries, min_gap_ms).entries = sorted_entries

\* C14 witness: the result differs from the sorted input and still holds an
\* overlap, and two of its entries start at the same time
C14_Witness ==
    /\ pc = "done"
    /\ sorted_entries # SortedByStart(ass_entries)
    /\ ~Separated(sorted_entries)
    /\ \E i \in 1..(Len(sorted_entries) - 1) :
          /\ StartMs(sorted_entries, i) = StartMs(sorted_entries, i + 1)
          /\ sorted_entries[i] # sorted_entries[i + 1]

\* the entries as pass k found them
EntriesBefore(k) ==
    IF k = 1 THEN SortedByStart(ass_entries) ELSE iterations[k - 1].entries

\* the end the claim names for entry i of es when it overlaps the next
ClaimedEnd(es, i) ==
    IF StartMs(es, i + 1) - min_gap_ms < StartMs(es, i) + 500
    THEN StartMs(es, i) + 500
    ELSE StartMs(es, i + 1) - min_gap_ms

\* the largest whole centisecond not above ms, in ms
WholeCentiseconds(ms) == (ms \div 10) * 10

\* C15 as stated: in every pass, an entry with end > next.start - min_gap_ms
\* gets the end next.start - min_gap_ms, or start + 500 ms when that is
\* later; and no entry that a pass changed ends earlier than 500 ms after
\* its start.
C15_ShrinkRule ==
    pc = "done" =>
        \A k \in 1..Len(iterations) :
            LET before == EntriesBefore(k)
                after  == iterations[k].entries
            IN  \A i \in 1..(Len(before) - 1) :
                    /\ EndMs(before, i) > StartMs(before, i + 1) - min_gap_ms =>
                           EndMs(after, i) = ClaimedEnd(before, i)
                    /\ after[i] # before[i] =>
                           EndMs(after, i) >= StartMs(after, i) + 500

\* C15 amended: the end an overlapping entry gets is that time cut down to
\* whole centiseconds, the resolution of the ASS time the end is stored as
\* (the two agree when min_gap_ms is a multiple of 10 ms); an entry that
\* does not overlap the next is left alone; and no entry that a pass changed
\* ends earlier than 500 ms after its start.
C15_ShrinkRuleCentiseconds ==
    pc = "done" =>
        \A k \in 1..Len(iterations) :
            LET before == EntriesBefore(k)
                after  == iterations[k].entries
            IN  /\ Len(after) = Len(before)
                /\ \A i \in 1..Len(before) :
                       IF i < Len(before)
                          /\ EndMs(before, i) > StartMs(before, i + 1) - min_gap_ms
                       THEN /\ EndMs(after, i) =
                                  WholeCentiseconds(ClaimedEnd(before, i))
                            /\ after[i].start = before[i].start
                            /\ EndMs(after, i) >= StartMs(after, i) + 500
                       ELSE after[i] = before[i]

\* C15 witness: with a gap that is no whole centisecond, one entry was cut
\* to the gap before the next, across the minute, and another was held at
\* 500 ms after its start
C15_Witness ==
    /\ pc = "done"
    /\ min_gap_ms % 10 # 0
    /\ LET before == EntriesBefore(1)
           after  == iterations[1].entries
       IN  /\ \E i \in 1..(Len(before) - 1) :
                 /\ EndMs(before, i) > StartMs(before, i + 1) - min_gap_ms
                 /\ ClaimedEnd(before, i) = StartMs(before, i + 1) - min_gap_ms
                 /\ after[i].end[2] < before[i].end[2]
           /\ \E i \in 1..(Len(before) - 1) :
                 /\ EndMs(before, i) > StartMs(before, i + 1) - min_gap_ms
                 /\ ClaimedEnd(before, i) = StartMs(before, i) + 500
                 /\ after[i] # before[i]

\* C16: fix_overlaps makes at most 5 passes, and it makes no further pass
\* after a pass that left every entry unchanged.
C16_StopsWhenUnchanged ==
    pc = "done" =>
        /\ Len(iterations) <= 5
        /\ \A k \in 1..(Len(iterations) - 1) :
               iterations[k].entries # EntriesBefore(k)

\* C28: fix_overlaps only shrinks.  Against the entries in the order of
\* their starts, the returned list has as many entries, every entry keeps
\* its start and its texts, no entry ends later than it did, also one
\* shorter than 500 ms, and the last entry is unchanged.
C28_ShrinkOnly ==
    pc = "done" =>
        LET before == SortedByStart(ass_entries)
        IN  /\ Len(sorted_entries) = Len(before)
            /\ \A i \in 1..Len(before) :
                  /\ sorted_entries[i].start = before[i].start
                  /\ sorted_entries[i].english = before[i].english
                  /\ sorted_entries[i].chinese = before[i].chinese
                  /\ EndMs(sorted_entries, i) <= EndMs(before, i)
            /\ before # <<>> => sorted_entries[Len(before)] = before[Len(before)]

-----------------------------------------------------------------------------
(* Claims about fix_overlaps_gentle *)

\* C17: after one call of fix_overlaps_gentle every subtitle ends at least
\* min_gap_ms before the next one starts: a pair that cannot be fixed by
\* cutting the current subtitle to 1000 ms or more is fixed by delaying the
\* next one, and later pairs do not break earlier ones.
C17_GentleSeparates ==
    pc = "done" =>
        \A i \in 1..(Len(fixed_subtitles) - 1) :
            fixed_subtitles[i].end <= fixed_subtitles[i + 1].start - min_gap_ms

\* C17 witness: one subtitle was cut, the start of a later one was delayed,
\* and the delayed one was itself in the way of its successor
C17_Witness ==
    /\ pc = "done"
    /\ min_gap_ms > 0
    /\ \E i \in 1..Len(subtitles) : fixed_subtitles[i].end < subtitles[i].end
    /\ \E i \in 2..(Len(subtitles) - 1) :
          /\ fixed_subtitles[i].start > subtitles[i].start
          /\ subtitles[i].end > subtitles[i + 1].start - min_gap_ms

\* C18: when every subtitle handed in lasts 1000 ms or more, every subtitle
\* lasts 1000 ms or more after the call.
C18_GentleKeepsOneSecond ==
    (/\ pc = "done"
     /\ \A i \in 1..Len(subtitles) : subtitles[i].end - subtitles[i].start >= 1000) =>
        \A i \in 1..Len(fixed_subtitles) :
            fixed_subtitles[i].end - fixed_subtitles[i].start >= 1000

-----------------------------------------------------------------------------
(* Claims about generate_styled_ass *)

\* the style in force: the one asked for, or "obama" when it is unknown
StyleInForce ==
    IF style_name \in DOMAIN STYLES THEN STYLES[style_name] ELSE STYLES["obama"]

\* the text holds a line-break marker
HasLineBreak(txt) == \E k \in 1..Len(txt) : txt[k] = LineBreak

\* C19: for every entry and every style, the line holds the line break
\* between the two texts only when the English and the Chinese text are both
\* non-empty, and then the texts stand in the order of the style; when one
\* of them is empty the line holds the other one alone, the English one with
\* the override blocks of its style, and no line break.
C19_SeparatorOnlyBetweenTexts ==
    pc = "done" =>
        \A k \in 1..Len(ass_lines) :
            LET entry   == sorted_entries[k]
                english == StyledEnglish(StyleInForce, entry.english)
                line    == ass_lines[k].text
            IN  IF entry.english # <<>> /\ entry.chinese # <<>>
                THEN line = IF StyleInForce.order = "eng_first"
                            THEN english \o <<LineBreak>> \o entry.chinese
                            ELSE entry.chinese \o <<LineBreak>> \o english
                ELSE /\ ~HasLineBreak(line)
                     /\ entry.english = <<>> => line = entry.chinese
                     /\ entry.chinese = <<>> /\ entry.english # <<>> =>
                            line = english

-----------------------------------------------------------------------------
(* Claims about translate_sentences *)

\* the segments translate_sentences asks the translator for in sentence i
SegmentsOf(i) ==
    split_long_sentence_by_duration(sentences[i][1], sentences[i][2],
                                    correct_terms(sentences[i][3]))

\* a translator call of sentence i raised
FailedSentence(i) ==
    \E j \in 1..Len(SegmentsOf(i)) : <<i, j>> \in failing

\* the output has a cue inside the time of sentence i
HasCue(i) ==
    \E k \in 1..Len(results) :
        /\ sentences[i][1] <= results[k].start
        /\ results[k].end <= sentences[i][2]

\* the output has the cue of a failed sentence i with the English text txt
HasFailureCue(i, txt) ==
    \E k \in 1..Len(results) :
        results[k] = [start |-> sentences[i][1], end |-> sentences[i][2],
                      english |-> txt, chinese |-> TranslationFailed]

\* C20 as stated: whatever translator calls fail, translate_sentences
\* returns a list with a cue for every sentence, and the cue of a failed
\* sentence carries the text the sentence came in with, its start and end,
\* and the sentinel translation
C20_FailureKeepsOriginalText ==
    pc = "done" =>
        \A i \in 1..Len(sentences) :
            /\ HasCue(i)
            /\ FailedSentence(i) => HasFailureCue(i, sentences[i][3])

\* C20 amended: whatever translator calls fail, translate_sentences returns
\* a list with a cue for every sentence, and the cue of a failed sentence
\* carries the sentence's text after the term corrections, its start and
\* end, and the sentinel translation
C20_FailureNeverAborts ==
    pc = "done" =>
        \A i \in 1..Len(sentences) :
            /\ HasCue(i)
            /\ FailedSentence(i) => HasFailureCue(i, correct_terms(sentences[i][3]))

\* a batch whose first sentence has a term to correct and fails, and whose
\* second sentence is translated
C20_Witness ==
    /\ pc = "done"
    /\ Len(sentences) = 2
    /\ FailedSentence(1)
    /\ correct_terms(sentences[1][3]) # sentences[1][3]
    /\ ~FailedSentence(2)
    /\ results[Len(results)].chinese # TranslationFailed

\* the output cues made from sentence i, in the order of the output
CuesOf(i) ==
    SelectSeq(results, LAMBDA cue : /\ sentences[i][1] <= cue.start
                                    /\ cue.end <= sentences[i][2])

\* the characters of a text that are no whitespace
NonWhitespace(txt) == SelectSeq(txt, LAMBDA c : c \notin Whitespace)

\* the English texts of a list of cues, one after the other
RECURSIVE EnglishOf(_)
EnglishOf(cues) ==
    IF cues = <<>> THEN <<>> ELSE cues[1].english \o EnglishOf(Tail(cues))

\* C29: translate_sentences emits the text of each sentence once.  Whatever
\* translator calls fail, the cues made from one sentence lie inside the
\* time of the sentence, no two of them overlap in time, and their English
\* texts together hold the characters of the sentence once: no segment is
\* both a cue of its own and part of a cue for the whole sentence.
C29_EmittedOnce ==
    pc = "done" =>
        \A i \in 1..Len(sentences) :
            LET cues == CuesOf(i)
            IN  /\ \A k \in 1..Len(cues) : \A l \in (k + 1)..Len(cues) :
                       \/ cues[k].end <= cues[l].start
                       \/ cues[l].end <= cues[k].start
                /\ NonWhitespace(EnglishOf(cues))
                       = NonWhitespace(correct_terms(sentences[i][3]))

-----------------------------------------------------------------------------
(* Claims about the texts of the duration splitter *)

\* the texts of a list of segments, one after the other
RECURSIVE SegmentTexts(_)
SegmentTexts(segs) ==
    IF segs = <<>> THEN <<>> ELSE segs[1][3] \o SegmentTexts(Tail(segs))

\* the segment texts hold the characters of the text that are no
\* whitespace, each once and in their order
TextPreserved == NonWhitespace(SegmentTexts(segments)) = NonWhitespace(text)

\* in a split result every segment but the last ends with a split character
ClosedByMarks ==
    Len(segments) > 1 =>
        \A k \in 1..(Len(segments) - 1) :
            /\ segments[k][3] # <<>>
            /\ segments[k][3][Len(segments[k][3])] \in split_chars(start_ms, end_ms)

\* C30 as stated: split_long_sentence_by_duration preserves the text.  For
\* every input the segment texts hold the non-whitespace characters of the
\* text once and in order, no segment has an empty text, and in a split
\* result every segment but the last ends with a split character.
C30_TextPreserved ==
    pc = "done" =>
        /\ TextPreserved
        /\ \A k \in 1..Len(segments) : segments[k][3] # <<>>
        /\ ClosedByMarks

\* C30 amended: the segment texts hold the non-whitespace characters of
\* the text once and in order, a segment has an empty text only when the
\* text handed in is empty, which comes back whole as the one segment, and
\* in a split result every segment but the last ends with a split character.
C30_TextPreservedNonEmpty ==
    pc = "done" =>
        /\ TextPreserved
        /\ text # <<>> => \A k \in 1..Len(segments) : segments[k][3] # <<>>
        /\ text = <<>> => segments = << <<start_ms, end_ms, <<>>>> >>
        /\ ClosedByMarks

\* C30 witness: a split whose parts lost whitespace and whose last segment
\* ends with no split character
C30_Witness ==
    /\ pc = "done"
    /\ Len(segments) >= 2
    /\ SegmentTexts(segments) # text
    /\ segments[Len(segments)][3][Len(segments[Len(segments)][3])]
           \notin split_chars(start_ms, end_ms)

-----------------------------------------------------------------------------
(* Claims about _parse_full_rms_output *)

\* the line of the timestamp nearest before line i, 0 when there is none
MarkerBefore(i) ==
    LET before == { j \in 1..(i - 1) : output_lines[j].kind = "pts_time" }
    IN  IF before = {} THEN 0 ELSE CHOOSE j \in before : \A k \in before : k <= j

\* the energy lines that are accepted: a reading within [-60, 0] that comes
\* after a timestamp
AcceptedLines ==
    { i \in 1..Len(output_lines) :
        /\ output_lines[i].kind = "rms"
        /\ -60 <= output_lines[i].rms_db
        /\ output_lines[i].rms_db <= 0
        /\ MarkerBefore(i) # 0 }

\* the k-th accepted line
NthAccepted(k) ==
    CHOOSE i \in AcceptedLines :
        Cardinality({ j \in AcceptedLines : j < i }) = k - 1

\* C27: _parse_full_rms_output gives one frame for each accepted energy
\* reading, in the order of the lines, with the time of the timestamp
\* nearest before it; a reading outside [-60, 0] or before any timestamp
\* gives no frame; and no two frames are made from one timestamp line.
C27_OneFramePerMarker ==
    pc = "done" =>
        /\ Len(parsed_frames) = Cardinality(AcceptedLines)
        /\ \A k \in 1..Len(parsed_frames) :
              /\ parsed_frames[k].rms_db = output_lines[NthAccepted(k)].rms_db
              /\ parsed_frames[k].time_ms
                     = output_lines[MarkerBefore(NthAccepted(k))].time_ms
              /\ -60 <= parsed_frames[k].rms_db
              /\ parsed_frames[k].rms_db <= 0
        /\ \A i, j \in AcceptedLines : i # j => MarkerBefore(i) # MarkerBefore(j)

-----------------------------------------------------------------------------
(* Claims about failed extractions *)

\* the decoder run of the last call timed out or gave no valid frame
DecodeFailed ==
    \/ decoder_outcome = "timeout"
    \/ decoder_outcome = "ok" /\ parse_full_rms_output(media_stderr) = <<>>

\* load_or_extract_audio_features has returned after a decoder run that
\* failed: it returned False, the analyzer holds no features, and the cache
\* artifact is as the call found it
FailureReported ==
    (/\ pc = "done"
     /\ call.op = "load_or_extract_audio_features"
     /\ DecodeFailed) =>
        /\ ret = FALSE
        /\ audio_features = None
        /\ cache_file = cache_found

\* the step is a slice request
SliceCalled ==
    /\ pc = "ready"
    /\ pc' = "done"
    /\ call'.op \in {"extract_audio_features", "_get_frames_in_range"}

C23_DecoderRunsOnce ==
    [][(pc = "ready" /\ pc' = "done") =>
          /\ decoder_runs' <= 1
          /\ decoder_ran => decoder_runs' = 0]_vars

-----------------------------------------------------------------------------
(* Claims about concurrent requests *)

\* C24: concurrent extraction requests for one media path are not kept
\* apart.  No call ever waits for another one: whatever the other calls are
\* doing, a call that missed the cache can run the decoder, a call that has
\* features can open the cache file for writing, and a call that has it
\* open can write.  So two calls can miss the cache, run the decoder and
\* have the file open for writing at the same time, and a third can read
\* the file while it is partly written.
C24_NotMutuallyExcluded ==
    \A p \in Requests :
        /\ request_at[p] = "called" => ENABLED LoadFromCache(p)
        /\ request_at[p] = "missed" => ENABLED RunDecoder(p)
        /\ request_at[p] = "extracted" => ENABLED OpenCacheFile(p)
        /\ request_at[p] = "writing" => ENABLED (WriteChunk(p) \/ CloseCacheFile(p))

\* C24 witness: two calls that both found no cache file and both ran the
\* decoder have the file open for writing, one of them part way through,
\* and a third call has read the file partly written and missed the cache
C24_Witness ==
    \E p, q, r \in Requests :
        /\ p # q /\ p # r /\ q # r
        /\ observed[p] = "absent" /\ request_at[p] = "writing"
        /\ observed[q] = "absent" /\ request_at[q] = "writing"
        /\ offset[p] > 0
        /\ ~Complete(artifact)
        /\ observed[r] = "partial"
        /\ request_at[r] = "missed"

=============================================================================
